---- MODULE Spec2Model ----
(***************************************************************************)
(* A model of the OFTW fundraising dashboard (src/OFTW_Dashboard.py): the  *)
(* fiscal-year calculator, the currency normaliser and the metrics engine, *)
(* with the dashboard callbacks that use them.                             *)
(*                                                                         *)
(* Conventions.                                                            *)
(*  - A number is an exact fraction <<n, d>> with d > 0; <<0, 0>> is the    *)
(*    missing value (pandas NaN / None).  Arithmetic with a missing value  *)
(*    gives a missing value; a column sum skips missing values, as         *)
(*    Series.sum() does.  Floating-point rounding is not modelled.         *)
(*  - A timestamp is a record [year, month, day, tod], tod the seconds     *)
(*    since midnight.                                                      *)
(*  - A text is a sequence of one-character strings, so that formatting    *)
(*    and parsing are computed character by character.                     *)
(*  - call is the last operation invoked, with its arguments and what it   *)
(*    returned; requests holds the callbacks that run at the same time,    *)
(*    each with its position and its local tables.                         *)
(*  - layout is what the browser holds of the navigation: the style of     *)
(*    each page, the active flag and the n_clicks of each link, and the    *)
(*    request for switch_page that is in flight.                           *)
(***************************************************************************)
EXTENDS Integers, Sequences, FiniteSets, TLC

VARIABLES
    df_payments_converted,   \* global: the normalised payments table
    df_pledges_converted,    \* global: the normalised pledges table
    counterfactual_df,       \* global: payments outside the internal funds
    available_fiscal_years,  \* global: sorted labels of the payment dates
    current_fiscal_year,     \* global: the dropdowns' default value
    Merged_INNER,            \* global: the pledges joined with their payments
    pc,                      \* position of the start-up block
    call,                    \* the last call: [op, arg, ret]
    requests,                \* the callback invocations the server is running
    layout                   \* the browser: the pages and the navigation links

vars == <<df_payments_converted, df_pledges_converted, counterfactual_df,
          available_fiscal_years, current_fiscal_year, Merged_INNER, pc, call,
          requests, layout>>

globals == <<df_payments_converted, df_pledges_converted, counterfactual_df,
             available_fiscal_years, current_fiscal_year, Merged_INNER, pc>>

----------------------------------------------------------------------------
(* Bounds of the model *)

\* the largest number of rows of a table passed to an operation
MaxRows == 2

----------------------------------------------------------------------------
(* Numbers *)

NaN == <<0, 0>>
IsNaN(x) == x[2] = 0
Num(n) == <<n, 1>>
Zero == <<0, 1>>

RECURSIVE GCD(_, _)
GCD(a, b) == IF b = 0 THEN a ELSE GCD(b, a % b)

Abs(n) == IF n < 0 THEN -n ELSE n

\* the fraction n / d (d > 0) in lowest terms
Frac(n, d) == LET g == GCD(Abs(n), d) IN <<n \div g, d \div g>>

Mul(x, y) == IF IsNaN(x) \/ IsNaN(y) THEN NaN
             ELSE Frac(x[1] * y[1], x[2] * y[2])

\* x / y for y > 0 or y missing (every rate of the model is positive)
Div(x, y) == IF IsNaN(x) \/ IsNaN(y) THEN NaN
             ELSE Frac(x[1] * y[2], x[2] * y[1])

Add(x, y) == IF IsNaN(x) \/ IsNaN(y) THEN NaN
             ELSE Frac(x[1] * y[2] + y[1] * x[2], x[2] * y[2])

\* equality of values: NaN is compared as "both missing"
NumEq(x, y) == IF IsNaN(x) \/ IsNaN(y) THEN IsNaN(x) /\ IsNaN(y)
               ELSE x[1] * y[2] = y[1] * x[2]

NumLe(x, y) == ~IsNaN(x) /\ ~IsNaN(y) /\ x[1] * y[2] <= y[1] * x[2]

----------------------------------------------------------------------------
(* Timestamps *)

TS(y, m, d, t) == [year |-> y, month |-> m, day |-> d, tod |-> t]
Day(y, m, d) == TS(y, m, d, 0)

\* pandas NaT, the missing timestamp: every comparison with it is False
NaT == TS(0, 0, 0, 0)

IsLeap(y) == (y % 4 = 0 /\ y % 100 # 0) \/ y % 400 = 0

DaysInMonth(y, m) ==
    IF m = 2 THEN (IF IsLeap(y) THEN 29 ELSE 28)
    ELSE IF m \in {4, 6, 9, 11} THEN 30 ELSE 31

\* a <= b on timestamps
TsLe(a, b) ==
  /\ a # NaT
  /\ b # NaT
  /\
    \/ a.year < b.year
    \/ a.year = b.year /\ a.month < b.month
    \/ a.year = b.year /\ a.month = b.month /\ a.day < b.day
    \/ a.year = b.year /\ a.month = b.month /\ a.day = b.day /\ a.tod <= b.tod

\* the readings of pd.Timestamp.now(): the clock of a running dashboard is
\* later than every date of the loaded data
NowSet == {TS(2026, 11, 5, 43200), TS(2026, 11, 5, 43201)}

----------------------------------------------------------------------------
(* Texts *)

Digits == <<"0", "1", "2", "3", "4", "5", "6", "7", "8", "9">>
IsDigit(c) == \E i \in 1..10 : Digits[i] = c
DigitVal(c) == (CHOOSE i \in 1..10 : Digits[i] = c) - 1

\* str(n) of an int
RECURSIVE IntStr(_)
IntStr(n) ==
    IF n < 0 THEN <<"-">> \o IntStr(-n)
    ELSE IF n < 10 THEN <<Digits[n + 1]>>
    ELSE IntStr(n \div 10) \o <<Digits[(n % 10) + 1]>>

\* s.split(c) for a one-character separator
RECURSIVE Split(_, _)
Split(s, c) ==
    IF \A i \in 1..Len(s) : s[i] # c THEN <<s>>
    ELSE LET k == CHOOSE i \in 1..Len(s) :
                      s[i] = c /\ \A j \in 1..(i - 1) : s[j] # c
         IN  <<SubSeq(s, 1, k - 1)>> \o Split(SubSeq(s, k + 1, Len(s)), c)

\* s.replace('FY', '')
RECURSIVE ReplaceFY(_)
ReplaceFY(s) ==
    IF Len(s) = 0 THEN <<>>
    ELSE IF Len(s) >= 2 /\ s[1] = "F" /\ s[2] = "Y"
         THEN ReplaceFY(SubSeq(s, 3, Len(s)))
         ELSE <<s[1]>> \o ReplaceFY(Tail(s))

RECURSIVE Strip(_)
Strip(s) ==
    IF Len(s) > 0 /\ s[1] = " " THEN Strip(Tail(s))
    ELSE IF Len(s) > 0 /\ s[Len(s)] = " " THEN Strip(SubSeq(s, 1, Len(s) - 1))
    ELSE s

RECURSIVE DigitsVal(_)
DigitsVal(s) ==
    IF Len(s) = 0 THEN 0
    ELSE 10 * DigitsVal(SubSeq(s, 1, Len(s) - 1)) + DigitVal(s[Len(s)])

\* int(s): surrounding blanks and a sign are accepted, then decimal digits;
\* anything else raises ValueError (ok = FALSE).  Underscore-grouped digits
\* are not in the alphabet of the model's texts.
PyInt(s) ==
    LET t == Strip(s)
        signed == Len(t) > 0 /\ t[1] \in {"+", "-"}
        body == IF signed THEN Tail(t) ELSE t
    IN  IF Len(body) > 0 /\ \A i \in 1..Len(body) : IsDigit(body[i])
        THEN [ok |-> TRUE,
              val |-> IF signed /\ t[1] = "-" THEN -DigitsVal(body)
                      ELSE DigitsVal(body)]
        ELSE [ok |-> FALSE, val |-> 0]

Upper == <<"A", "B", "C", "D", "E", "F", "G", "H", "I", "J", "K", "L", "M",
           "N", "O", "P", "Q", "R", "S", "T", "U", "V", "W", "X", "Y", "Z">>
Lower == <<"a", "b", "c", "d", "e", "f", "g", "h", "i", "j", "k", "l", "m",
           "n", "o", "p", "q", "r", "s", "t", "u", "v", "w", "x", "y", "z">>

\* the code point of a digit, a hyphen, a blank or a letter
Ascii(c) ==
    IF IsDigit(c) THEN 48 + DigitVal(c)
    ELSE IF c = "-" THEN 45
    ELSE IF c = " " THEN 32
    ELSE IF \E i \in 1..26 : Upper[i] = c
         THEN 64 + (CHOOSE i \in 1..26 : Upper[i] = c)
         ELSE 96 + (CHOOSE i \in 1..26 : Lower[i] = c)

\* a < b on texts, as Python compares str
RECURSIVE TextLt(_, _)
TextLt(a, b) ==
    IF Len(b) = 0 THEN FALSE
    ELSE IF Len(a) = 0 THEN TRUE
    ELSE IF Ascii(a[1]) # Ascii(b[1]) THEN Ascii(a[1]) < Ascii(b[1])
    ELSE TextLt(Tail(a), Tail(b))

\* sorted(list(set)) of texts, and the sorted group keys of a groupby
RECURSIVE Sorted(_)
Sorted(S) ==
    IF S = {} THEN <<>>
    ELSE LET least == CHOOSE a \in S : \A b \in S \ {a} : TextLt(a, b)
         IN  <<least>> \o Sorted(S \ {least})

----------------------------------------------------------------------------
(* Fiscal year calculator *)

\* get_fiscal_year with the fiscal year starting in August
get_fiscal_year_late(date) ==
    IF date.month > 7
    THEN <<"F", "Y">> \o IntStr(date.year) \o <<"-">> \o IntStr(date.year + 1)
    ELSE <<"F", "Y">> \o IntStr(date.year - 1) \o <<"-">> \o IntStr(date.year)

\* get_fiscal_year(date)
get_fiscal_year(date) ==
    IF date.month >= 7
    THEN <<"F", "Y">> \o IntStr(date.year) \o <<"-">> \o IntStr(date.year + 1)
    ELSE <<"F", "Y">> \o IntStr(date.year - 1) \o <<"-">> \o IntStr(date.year)

\* pd.Timestamp(f"{year}-07-01") and pd.Timestamp(f"{year}-06-30") succeed
\* for the years a nanosecond timestamp can hold
TimestampYearOk(y) == 1678 <= y /\ y <= 2261

\* The try block of get_fiscal_year_range: ok = FALSE when a statement of
\* it raises (no second part, int() fails, the timestamp is out of range).
ParseFiscalYear(fiscal_year) ==
    LET parts == Split(fiscal_year, "-")
        year1 == PyInt(ReplaceFY(parts[1]))
        year2 == IF Len(parts) >= 2 THEN PyInt(parts[2])
                 ELSE [ok |-> FALSE, val |-> 0]
    IN  IF year1.ok /\ year2.ok
           /\ TimestampYearOk(year1.val) /\ TimestampYearOk(year2.val)
        THEN [ok |-> TRUE, start_date |-> Day(year1.val, 7, 1),
              end_date |-> Day(year2.val, 6, 30)]
        ELSE [ok |-> FALSE, start_date |-> Day(0, 0, 0),
              end_date |-> Day(0, 0, 0)]

\* get_fiscal_year_range ending the year on June 30 of its first year
get_fiscal_year_range_short(fiscal_year, now) ==
    LET p == ParseFiscalYear(fiscal_year)
    IN  IF p.ok THEN <<p.start_date, Day(p.start_date.year, 6, 30)>>
        ELSE <<now[1], now[2]>>

\* get_fiscal_year_range(fiscal_year); now is the pair of readings of
\* pd.Timestamp.now() the except branch takes
get_fiscal_year_range(fiscal_year, now) ==
    LET p == ParseFiscalYear(fiscal_year)
    IN  IF p.ok THEN <<p.start_date, p.end_date>>
        ELSE <<now[1], now[2]>>

\* (df[col] >= start_date) & (df[col] <= end_date) for one row
InRange(ts, range) == TsLe(range[1], ts) /\ TsLe(ts, range[2])

\* the lambda of update_pledge_kpis and update_pledge_charts
fiscal_month(x) ==
    IF x.month >= 7 THEN ((x.month - 6) % 12) + 1 ELSE x.month + 6

----------------------------------------------------------------------------
(* Tables *)

\* A DataFrame: its column names and its rows (records over the columns).
DataFrame(cols, rows) == [cols |-> cols, rows |-> rows]

\* pd.DataFrame(): no columns, no rows
EmptyDataFrame == DataFrame({}, <<>>)

\* what an operation returns, or that it raised
Ok(v) == [raised |-> FALSE, val |-> v]
Raised == [raised |-> TRUE, val |-> <<>>]

\* Series.sum(): the missing values are skipped, the sum of nothing is 0
RECURSIVE SumSkipNa(_)
SumSkipNa(s) ==
    IF Len(s) = 0 THEN Zero
    ELSE IF IsNaN(Head(s)) THEN SumSkipNa(Tail(s))
    ELSE Add(Head(s), SumSkipNa(Tail(s)))

Column(rows, col) == [i \in 1..Len(rows) |-> rows[i][col]]

----------------------------------------------------------------------------
(* Metrics engine *)

DiscretionaryFund == "One for the World Discretionary Fund"
OperatingCosts == "One for the World Operating Costs"

\* calculate_money_moved with the test of the last line turned round: the
\* total of a table that has rows is 0
calculate_money_moved_inverted(df, fiscal_year, now) ==
    IF Len(fiscal_year) > 0
    THEN IF ~({"date"} \subseteq df.cols) THEN Raised
         ELSE LET range == get_fiscal_year_range(fiscal_year, now)
                  filtered_df == SelectSeq(df.rows,
                                     LAMBDA r : InRange(r.date, range))
              IN  IF Len(filtered_df) = 0 THEN Ok(Zero)
                  ELSE IF ~({"amount_usd"} \subseteq df.cols) THEN Raised
                  ELSE Ok(SumSkipNa(Column(filtered_df, "amount_usd")))
    ELSE IF Len(df.rows) > 0 THEN Ok(Zero)
         ELSE IF ~({"amount_usd"} \subseteq df.cols) THEN Raised
         ELSE Ok(SumSkipNa(Column(df.rows, "amount_usd")))

\* calculate_money_moved(df, fiscal_year=None); a call without a fiscal
\* year, with None and with '' is a call with the empty text
calculate_money_moved(df, fiscal_year, now) ==
    IF Len(fiscal_year) > 0
    THEN IF ~({"date"} \subseteq df.cols) THEN Raised
         ELSE LET range == get_fiscal_year_range(fiscal_year, now)
                  filtered_df == SelectSeq(df.rows,
                                     LAMBDA r : InRange(r.date, range))
              IN  IF Len(filtered_df) = 0 THEN Ok(Zero)
                  ELSE IF ~({"amount_usd"} \subseteq df.cols) THEN Raised
                  ELSE Ok(SumSkipNa(Column(filtered_df, "amount_usd")))
    ELSE IF Len(df.rows) = 0 THEN Ok(Zero)
         ELSE IF ~({"amount_usd"} \subseteq df.cols) THEN Raised
         ELSE Ok(SumSkipNa(Column(df.rows, "amount_usd")))

\* the filter with the operating costs left out of the list
NotDiscretionaryFund(r) == r.portfolio # DiscretionaryFund

\* df[~df['portfolio'].isin([...])] of calculate_counterfactual_mm: a
\* missing portfolio is not in the list
NotInternalFund(r) == r.portfolio \notin {DiscretionaryFund, OperatingCosts}

\* calculate_counterfactual_mm with the amount divided by the weight
calculate_counterfactual_mm_divided(df, fiscal_year, now) ==
    IF ~({"portfolio", "amount_usd", "counterfactuality"} \subseteq df.cols)
    THEN Raised
    ELSE LET kept == SelectSeq(df.rows, NotInternalFund)
             filtered_df ==
                 [i \in 1..Len(kept) |->
                     kept[i] @@ ("counterfactual_amount" :>
                         Div(kept[i].amount_usd, kept[i].counterfactuality))]
         IN  IF Len(fiscal_year) > 0
             THEN IF ~({"date"} \subseteq df.cols) THEN Raised
                  ELSE LET range == get_fiscal_year_range(fiscal_year, now)
                           year_df == SelectSeq(filtered_df,
                                          LAMBDA r : InRange(r.date, range))
                       IN  Ok(SumSkipNa(Column(year_df,
                                                "counterfactual_amount")))
             ELSE Ok(SumSkipNa(Column(filtered_df, "counterfactual_amount")))

\* calculate_counterfactual_mm(df, fiscal_year=None)
calculate_counterfactual_mm(df, fiscal_year, now) ==
    IF ~({"portfolio", "amount_usd", "counterfactuality"} \subseteq df.cols)
    THEN Raised
    ELSE LET kept == SelectSeq(df.rows, NotInternalFund)
             filtered_df ==
                 [i \in 1..Len(kept) |->
                     kept[i] @@ ("counterfactual_amount" :>
                         Mul(kept[i].amount_usd, kept[i].counterfactuality))]
         IN  IF Len(fiscal_year) > 0
             THEN IF ~({"date"} \subseteq df.cols) THEN Raised
                  ELSE LET range == get_fiscal_year_range(fiscal_year, now)
                           year_df == SelectSeq(filtered_df,
                                          LAMBDA r : InRange(r.date, range))
                       IN  Ok(SumSkipNa(Column(year_df,
                                                "counterfactual_amount")))
             ELSE Ok(SumSkipNa(Column(filtered_df, "counterfactual_amount")))

----------------------------------------------------------------------------
(* Formatting of the KPI values *)

\* n / d (n >= 0, d > 0) rounded to the nearest integer, a tie to the even
RoundHalfEven(n, d) ==
    LET q == n \div d
        r == n % d
    IN  IF 2 * r < d THEN q
        ELSE IF 2 * r > d THEN q + 1
        ELSE IF q % 2 = 0 THEN q ELSE q + 1

\* the thousands separators of the format ","
RECURSIVE Commas(_)
Commas(ds) ==
    IF Len(ds) <= 3 THEN ds
    ELSE Commas(SubSeq(ds, 1, Len(ds) - 3)) \o <<",">>
             \o SubSeq(ds, Len(ds) - 2, Len(ds))

\* f"${x:,.2f}"
FormatMoney(x) ==
    IF IsNaN(x) THEN <<"$", "n", "a", "n">>
    ELSE LET cents == RoundHalfEven(Abs(x[1]) * 100, x[2])
         IN  <<"$">> \o (IF x[1] < 0 THEN <<"-">> ELSE <<>>)
                 \o Commas(IntStr(cents \div 100)) \o <<".">>
                 \o <<Digits[((cents \div 10) % 10) + 1],
                      Digits[(cents % 10) + 1]>>

\* f"{n:,}" of a count
FormatCount(n) == Commas(IntStr(n))

NoDataText == <<"N", "o", " ", "d", "a", "t", "a">>
ErrorText == <<"E", "r", "r", "o", "r">>

----------------------------------------------------------------------------
(* Annualized run rate *)

\* the multiplier of the first two ARR computations (lines 149 and 1999)
FlatMultiplier == 12

\* calculate_arr_by_channel(df, fiscal_year=None)
calculate_arr_by_channel(df, fiscal_year, now) ==
    IF Len(fiscal_year) > 0 /\ ~({"pledge_starts_at"} \subseteq df.cols)
    THEN Raised
    ELSE IF ~({"pledge_status"} \subseteq df.cols) THEN Raised
    ELSE LET scoped ==
                 IF Len(fiscal_year) > 0
                 THEN SelectSeq(df.rows, LAMBDA r :
                          InRange(r.pledge_starts_at,
                                  get_fiscal_year_range(fiscal_year, now)))
                 ELSE df.rows
             active_pledges ==
                 SelectSeq(scoped, LAMBDA r : r.pledge_status = "Active donor")
         IN  IF ~({"amount_usd"} \subseteq df.cols) THEN Raised
             ELSE Ok(SumSkipNa([i \in 1..Len(active_pledges) |->
                         Mul(active_pledges[i].amount_usd,
                             Num(FlatMultiplier))]))

\* update_active_arr(fiscal_year), on the pledges table of the module
update_active_arr(pledges_table, fiscal_year, now) ==
    IF Len(fiscal_year) = 0 THEN Ok(NoDataText)
    ELSE IF ~({"pledge_status", "pledge_starts_at", "amount_usd"}
                 \subseteq pledges_table.cols)
    THEN Raised
    ELSE LET range == get_fiscal_year_range(fiscal_year, now)
             active_pledges ==
                 SelectSeq(pledges_table.rows, LAMBDA r :
                     /\ r.pledge_status = "Active donor"
                     /\ InRange(r.pledge_starts_at, range))
             total_arr ==
                 SumSkipNa([i \in 1..Len(active_pledges) |->
                     Mul(active_pledges[i].amount_usd, Num(FlatMultiplier))])
         IN  Ok(FormatMoney(total_arr))

\* df_filtered['frequency'].map({...}).fillna(1)
MultiplierOf(frequency) ==
    IF frequency = "monthly" THEN 12
    ELSE IF frequency = "quarterly" THEN 4
    ELSE IF frequency = "annually" THEN 1
    ELSE IF frequency = "One-Time" THEN 1
    ELSE 1

\* calculate_arr(df, status), the function nested in update_pledge_kpis
calculate_arr(rows, status) ==
    LET df_filtered == SelectSeq(rows, LAMBDA r : r.pledge_status = status)
    IN  SumSkipNa([i \in 1..Len(df_filtered) |->
            Mul(df_filtered[i].amount_usd,
                Num(MultiplierOf(df_filtered[i].frequency)))])

CountRows(rows, statuses) ==
    Len(SelectSeq(rows, LAMBDA r : r.pledge_status \in statuses))

\* update_pledge_kpis(fiscal_year, month_range), on the pledges table of
\* the module; every exception of its try block gives six "Error" texts
update_pledge_kpis(pledges_table, fiscal_year, month_range, now) ==
    IF Len(fiscal_year) = 0
    THEN Ok([k \in 1..6 |-> NoDataText])
    ELSE IF ~({"pledge_status", "pledge_starts_at", "amount_usd", "frequency"}
                 \subseteq pledges_table.cols)
    THEN Ok([k \in 1..6 |-> ErrorText])
    ELSE LET range == get_fiscal_year_range(fiscal_year, now)
             start_month == month_range[1] + 1
             end_month == month_range[2] + 1
             in_year == SelectSeq(pledges_table.rows, LAMBDA r :
                            InRange(r.pledge_starts_at, range))
             pledges == SelectSeq(in_year, LAMBDA r :
                            /\ fiscal_month(r.pledge_starts_at) >= start_month
                            /\ fiscal_month(r.pledge_starts_at) <= end_month)
             active_arr == calculate_arr(pledges, "Active donor")
             future_arr == calculate_arr(pledges, "Pledged donor")
         IN  Ok(<<FormatCount(CountRows(pledges,
                                        {"Active donor", "Pledged donor"})),
                  FormatCount(CountRows(pledges, {"Active donor"})),
                  FormatCount(CountRows(pledges, {"Pledged donor"})),
                  FormatMoney(Add(active_arr, future_arr)),
                  FormatMoney(active_arr),
                  FormatMoney(future_arr)>>)

----------------------------------------------------------------------------
(* Pledge metrics *)

\* a missing donor_id or pledge_id, and a missing chapter_type (NaN)
NoId == "<NA>"
NoChapter == <<"<NA>">>

\* the attrition rate over the pledges that are not 'Pledged donor'
calculate_pledge_attrition_rate_started(df) ==
    IF ~({"pledge_status"} \subseteq df.cols) THEN Raised
    ELSE LET cancelled_pledges ==
                 CountRows(df.rows, {"Payment failure", "Churned donor"})
             total_pledges ==
                 Len(df.rows) - CountRows(df.rows, {"Pledged donor"})
         IN  IF total_pledges > 0
             THEN Ok(Mul(Div(Num(cancelled_pledges), Num(total_pledges)),
                         Num(100)))
             ELSE Ok(Zero)

\* calculate_pledge_attrition_rate(df)
calculate_pledge_attrition_rate(df) ==
    IF ~({"pledge_status"} \subseteq df.cols) THEN Raised
    ELSE LET cancelled_pledges ==
                 CountRows(df.rows, {"Payment failure", "Churned donor"})
             total_pledges == Len(df.rows)
         IN  IF total_pledges > 0
             THEN Ok(Mul(Div(Num(cancelled_pledges), Num(total_pledges)),
                         Num(100)))
             ELSE Ok(Zero)

\* Series.nunique() of a column: the missing values are not counted
NUnique(rows, col, missing) ==
    Cardinality({rows[i][col] : i \in 1..Len(rows)} \ {missing})

\* count_active_donors counting the pledges, not the donors
count_active_donors_rows(df) ==
    IF ~({"pledge_status", "donor_id"} \subseteq df.cols) THEN Raised
    ELSE Ok(CountRows(df.rows, {"Active donor", "One-Time"}))

\* count_active_donors(df)
count_active_donors(df) ==
    IF ~({"pledge_status", "donor_id"} \subseteq df.cols) THEN Raised
    ELSE Ok(NUnique(SelectSeq(df.rows, LAMBDA r :
                        r.pledge_status \in {"Active donor", "One-Time"}),
                    "donor_id", NoId))

\* count_active_pledges(df)
count_active_pledges(df) ==
    IF ~({"pledge_status", "pledge_id"} \subseteq df.cols) THEN Raised
    ELSE Ok(NUnique(SelectSeq(df.rows, LAMBDA r :
                        r.pledge_status = "Active donor"),
                    "pledge_id", NoId))

\* calculate_chapter_arr(df, fiscal_year=None): the groups of a groupby
\* are sorted by key and a missing key makes no group
calculate_chapter_arr(df, fiscal_year, now) ==
    IF Len(fiscal_year) > 0 /\ ~({"pledge_starts_at"} \subseteq df.cols)
    THEN Raised
    ELSE IF ~({"pledge_status", "amount_usd", "chapter_type"}
                 \subseteq df.cols)
    THEN Raised
    ELSE LET scoped ==
                 IF Len(fiscal_year) > 0
                 THEN SelectSeq(df.rows, LAMBDA r :
                          InRange(r.pledge_starts_at,
                                  get_fiscal_year_range(fiscal_year, now)))
                 ELSE df.rows
             active_pledges ==
                 SelectSeq(scoped, LAMBDA r : r.pledge_status = "Active donor")
             keys == Sorted({active_pledges[i].chapter_type :
                                i \in 1..Len(active_pledges)} \ {NoChapter})
             group(k) == SelectSeq(active_pledges,
                                   LAMBDA r : r.chapter_type = k)
         IN  Ok(DataFrame({"chapter_type", "annual_value"},
                    [j \in 1..Len(keys) |->
                        [chapter_type |-> keys[j],
                         annual_value |->
                             SumSkipNa([i \in 1..Len(group(keys[j])) |->
                                 Mul(group(keys[j])[i].amount_usd,
                                     Num(FlatMultiplier))])]]))

----------------------------------------------------------------------------
(* Currency normaliser *)

\* A rate table is a sequence of rows [date, rate], the rate under the
\* column named by its FRED code.
RateCols == {"DEXUSUK", "DEXCAUS", "DEXUSAL", "DEXUSEU", "DEXSIUS", "DEXSZUS"}

\* the rows of a rate table dated as the row is
RateMatches(table, date) == SelectSeq(table, LAMBDA t : t.date = date)

\* a join that takes the latest earlier rate when the date has no row
RECURSIVE MergeAsOf(_, _, _)
MergeAsOf(rows, table, col) ==
    IF Len(rows) = 0 THEN <<>>
    ELSE LET r == Head(rows)
             m == SelectSeq(table, LAMBDA t : TsLe(t.date, r.date))
         IN  (IF Len(m) = 0 THEN <<r @@ (col :> NaN)>>
              ELSE <<r @@ (col :> m[Len(m)].rate)>>)
             \o MergeAsOf(Tail(rows), table, col)

\* df.merge(table, on='date', how='left'): every row of df, in order, once
\* for each row of the table with its date, or once with a missing rate
RECURSIVE MergeLeft(_, _, _)
MergeLeft(rows, table, col) ==
    IF Len(rows) = 0 THEN <<>>
    ELSE LET r == Head(rows)
             m == RateMatches(table, r.date)
         IN  (IF Len(m) = 0 THEN <<r @@ (col :> NaN)>>
              ELSE [j \in 1..Len(m) |-> r @@ (col :> m[j].rate)])
             \o MergeLeft(Tail(rows), table, col)

\* the six merges, the first of them keeping only the rows with a GBP rate
MergeRatesMatched(rows, gbp, cad, aud, eur, sgd, chf) ==
    MergeLeft(MergeLeft(MergeLeft(MergeLeft(MergeLeft(
        SelectSeq(MergeLeft(rows, gbp, "DEXUSUK"),
                  LAMBDA r : ~IsNaN(r.DEXUSUK)),
        cad, "DEXCAUS"), aud, "DEXUSAL"), eur, "DEXUSEU"),
        sgd, "DEXSIUS"), chf, "DEXSZUS")

\* the six merges of convert_payments_to_usd and convert_pledges_to_usd
MergeRates(rows, gbp, cad, aud, eur, sgd, chf) ==
    MergeLeft(MergeLeft(MergeLeft(MergeLeft(MergeLeft(MergeLeft(rows,
        gbp, "DEXUSUK"), cad, "DEXCAUS"), aud, "DEXUSAL"), eur, "DEXUSEU"),
        sgd, "DEXSIUS"), chf, "DEXSZUS")

\* the conversion with every rate multiplied
AmountUsdMultiply(row, amount) ==
    IF row.currency = "GBP" THEN Mul(amount, row.DEXUSUK)
    ELSE IF row.currency = "CAD" THEN Mul(amount, row.DEXCAUS)
    ELSE IF row.currency = "AUD" THEN Mul(amount, row.DEXUSAL)
    ELSE IF row.currency = "EUR" THEN Mul(amount, row.DEXUSEU)
    ELSE IF row.currency = "SGD" THEN Mul(amount, row.DEXSIUS)
    ELSE IF row.currency = "CHF" THEN Mul(amount, row.DEXSZUS)
    ELSE amount

\* the lambda of df.apply: the row's amount in USD
AmountUsd(row, amount) ==
    IF row.currency = "GBP" THEN Mul(amount, row.DEXUSUK)
    ELSE IF row.currency = "CAD" THEN Div(amount, row.DEXCAUS)
    ELSE IF row.currency = "AUD" THEN Mul(amount, row.DEXUSAL)
    ELSE IF row.currency = "EUR" THEN Mul(amount, row.DEXUSEU)
    ELSE IF row.currency = "SGD" THEN Div(amount, row.DEXSIUS)
    ELSE IF row.currency = "CHF" THEN Div(amount, row.DEXSZUS)
    ELSE amount

\* df.drop(columns=[the six rate columns])
DropRates(row) == [f \in (DOMAIN row) \ RateCols |-> row[f]]

\* df[col] = value for one row: the column is added, or overwritten
SetColumn(row, col, value) == (col :> value) @@ row

\* convert_payments_to_usd writing the converted amount over the amount too
convert_payments_to_usd_in_place(payments_df, gbp, cad, aud, eur, sgd, chf) ==
    IF ~({"date", "amount", "currency"} \subseteq payments_df.cols) THEN Raised
    ELSE LET df == MergeRates(payments_df.rows, gbp, cad, aud, eur, sgd, chf)
         IN  Ok(DataFrame(payments_df.cols \cup {"amount_usd"},
                    [i \in 1..Len(df) |->
                        SetColumn(SetColumn(DropRates(df[i]), "amount_usd",
                                            AmountUsd(df[i], df[i].amount)),
                                  "amount", AmountUsd(df[i], df[i].amount))]))

\* convert_payments_to_usd(payments_df, gbp, cad, aud, eur, sgd, chf), for
\* a table of at least one row
convert_payments_to_usd(payments_df, gbp, cad, aud, eur, sgd, chf) ==
    IF ~({"date", "amount", "currency"} \subseteq payments_df.cols) THEN Raised
    ELSE LET df == MergeRates(payments_df.rows, gbp, cad, aud, eur, sgd, chf)
         IN  Ok(DataFrame(payments_df.cols \cup {"amount_usd"},
                    [i \in 1..Len(df) |->
                        SetColumn(DropRates(df[i]), "amount_usd",
                                  AmountUsd(df[i], df[i].amount))]))

\* df.rename(columns={old: new}) for one row
Rename(row, old, new) ==
    [f \in ((DOMAIN row) \ {old}) \cup {new} |->
        IF f = new THEN row[old] ELSE row[f]]

\* convert_pledges_to_usd(pledge_df, gbp, cad, aud, eur, sgd, chf), for a
\* table of at least one row; the result keeps pledge_created_at under the
\* name date
convert_pledges_to_usd(pledge_df, gbp, cad, aud, eur, sgd, chf) ==
    IF ~({"pledge_created_at", "contribution_amount", "currency"}
            \subseteq pledge_df.cols)
    THEN Raised
    ELSE LET renamed == [i \in 1..Len(pledge_df.rows) |->
                            Rename(pledge_df.rows[i], "pledge_created_at",
                                   "date")]
             df == MergeRates(renamed, gbp, cad, aud, eur, sgd, chf)
         IN  Ok(DataFrame(
                    ((pledge_df.cols \ {"pledge_created_at"}) \cup {"date"})
                        \cup {"amount_usd"},
                    [i \in 1..Len(df) |->
                        SetColumn(DropRates(df[i]), "amount_usd",
                            AmountUsd(df[i], df[i].contribution_amount))]))

----------------------------------------------------------------------------
(* The state after the module-level defaults (lines 200-204) *)

NoData == <<"N", "o", " ", "D", "a", "t", "a">>
FY2023 == <<"F", "Y", "2", "0", "2", "3", "-", "2", "0", "2", "4">>
FY2024 == <<"F", "Y", "2", "0", "2", "4", "-", "2", "0", "2", "5">>

\* a name of the module that no statement has assigned yet
Undefined == [defined |-> FALSE, cols |-> {}, rows |-> <<>>]

\* the threads of the server that run callbacks, and a thread without one
Requests == {"r1", "r2"}
IdleRequest == [pos |-> "idle"]

\* the six pages; the navigation link of page p has the id "nav-" p and the
\* container of the page the id "page-" p
Pages == {"overview", "analysis", "objective", "money", "pledge", "insights"}

PageText ==
    [overview  |-> <<"o", "v", "e", "r", "v", "i", "e", "w">>,
     analysis  |-> <<"a", "n", "a", "l", "y", "s", "i", "s">>,
     objective |-> <<"o", "b", "j", "e", "c", "t", "i", "v", "e">>,
     money     |-> <<"m", "o", "n", "e", "y">>,
     pledge    |-> <<"p", "l", "e", "d", "g", "e">>,
     insights  |-> <<"i", "n", "s", "i", "g", "h", "t", "s">>]

\* the id of the navigation link of a page (lines 407-432)
NavId(p) == <<"n", "a", "v", "-">> \o PageText[p]

\* the prop_id Dash gives the n_clicks of a navigation link
PropId(p) == NavId(p) \o <<".", "n", "_", "c", "l", "i", "c", "k", "s">>

NoRequest == [sent |-> FALSE]

\* a request for switch_page: the six n_clicks and callback_context.triggered
Request(n_clicks, triggered) ==
    [sent |-> TRUE, n_clicks |-> n_clicks, triggered |-> triggered]

\* The layout as app.layout declares it (lines 403-433, 459, 654, 858, 1165,
\* 1321, 1576): page-objective has no style, the other pages are hidden,
\* nav-objective is the active link and no link has been clicked.  Loading
\* the page requests switch_page with nothing triggered.  last is the link
\* clicked last.
InitialLayout ==
    [style |-> [p \in Pages |-> IF p = "objective" THEN "unset" ELSE "none"],
     active |-> [p \in Pages |-> p = "objective"],
     n_clicks |-> [p \in Pages |-> 0],
     pending |-> Request([p \in Pages |-> 0], <<>>),
     last |-> "none"]

Init ==
    /\ df_payments_converted = EmptyDataFrame
    /\ df_pledges_converted = EmptyDataFrame
    /\ counterfactual_df = EmptyDataFrame
    /\ available_fiscal_years = <<>>
    /\ current_fiscal_year = NoData
    /\ Merged_INNER = Undefined
    /\ pc = "start"
    /\ call = [op |-> "none"]
    /\ requests = [r \in Requests |-> IdleRequest]
    /\ layout = InitialLayout

----------------------------------------------------------------------------
(* The start-up block (lines 206-354) *)

\* A file is [present, cols, rows]: whether read_csv finds it, and the
\* table it holds.  The dates of a file are timestamps already
\* (pd.to_datetime is not modelled beyond the columns it needs).
File(cols, rows) == [present |-> TRUE, cols |-> cols, rows |-> rows]
MissingFile == [present |-> FALSE, cols |-> {}, rows |-> <<>>]

PledgeDateCols == {"pledge_created_at", "pledge_starts_at", "pledge_ended_at"}

\* the name of a column in a merged table: a column of both tables takes the
\* suffix of its side
MergedName(c, both, suffix) == IF c \in both THEN c \o suffix ELSE c

\* a row of the left table joined with a row of the right table
JoinRows(l, r, lcols, rcols, key) ==
    LET both == (lcols \cap rcols) \ {key}
        lnames == {MergedName(c, both, "_x") : c \in lcols}
        rnames == {MergedName(c, both, "_y") : c \in rcols \ {key}}
    IN  [f \in lnames \cup rnames |->
            IF f \in lnames
            THEN l[CHOOSE c \in lcols : MergedName(c, both, "_x") = f]
            ELSE r[CHOOSE c \in rcols \ {key} :
                      MergedName(c, both, "_y") = f]]

\* the rows of an inner merge, in the order of the left table: each left row
\* with every right row of its key.  pandas joins a missing key with a
\* missing key, as the equality of the missing id does here.
RECURSIVE InnerRows(_, _, _, _, _)
InnerRows(lrows, rrows, lcols, rcols, key) ==
    IF Len(lrows) = 0 THEN <<>>
    ELSE LET l == Head(lrows)
             m == SelectSeq(rrows, LAMBDA r : r[key] = l[key])
         IN  [j \in 1..Len(m) |-> JoinRows(l, m[j], lcols, rcols, key)]
             \o InnerRows(Tail(lrows), rrows, lcols, rcols, key)

\* pd.merge(left, right, on=key, how='inner')
InnerMerge(left, right, key) ==
    IF ~({key} \subseteq left.cols \cap right.cols) THEN Raised
    ELSE LET both == (left.cols \cap right.cols) \ {key}
         IN  Ok([defined |-> TRUE,
                 cols |-> {MergedName(c, both, "_x") : c \in left.cols}
                          \cup {MergedName(c, both, "_y") :
                                   c \in right.cols \ {key}},
                 rows |-> InnerRows(left.rows, right.rows, left.cols,
                                    right.cols, key)])

\* What the block leaves in the five globals, for the files PledgeCsv and
\* PaymentsCsv and the six rate files (rates[c], or absent): each step runs
\* only if the steps before it did not raise, for tables of at least one
\* row, and the except clause restores nothing.
LoadData(PledgeCsv, PaymentsCsv, rates_present, rates) ==
    LET Pledge == DataFrame(PledgeCsv.cols, Tail(PledgeCsv.rows))
        Payments == DataFrame(PaymentsCsv.cols, PaymentsCsv.rows)
        \* lines 209-233: read, drop the first pledge row, convert the dates
        read_ok ==
            /\ PledgeCsv.present /\ PaymentsCsv.present
            /\ Len(PledgeCsv.rows) > 0
            /\ {"date"} \subseteq Payments.cols
            /\ PledgeDateCols \subseteq Pledge.cols
            /\ rates_present
        \* lines 303-305
        payments == convert_payments_to_usd(Payments, rates["GBP"],
                        rates["CAD"], rates["AUD"], rates["EUR"],
                        rates["SGD"], rates["CHF"])
        payments_ok == read_ok /\ ~payments.raised
        \* lines 306-308
        pledges == convert_pledges_to_usd(Pledge, rates["GBP"],
                       rates["CAD"], rates["AUD"], rates["EUR"],
                       rates["SGD"], rates["CHF"])
        pledges_ok == payments_ok /\ ~pledges.raised
        \* lines 311-314
        segregate_ok == pledges_ok /\ {"pledge_id"} \subseteq payments.val.cols
        \* lines 317-318
        renamed ==
            DataFrame((pledges.val.cols \ {"date"}) \cup {"pledge_created_at"},
                      [i \in 1..Len(pledges.val.rows) |->
                          Rename(pledges.val.rows[i], "date",
                                 "pledge_created_at")])
        \* lines 321-328
        merged == InnerMerge(renamed, payments.val, "pledge_id")
        merge_ok == segregate_ok /\ ~merged.raised
        \* lines 331-335
        filter_ok == merge_ok /\ {"portfolio"} \subseteq payments.val.cols
        kept == SelectSeq(payments.val.rows, NotInternalFund)
        \* lines 338-339
        moved_ok ==
            filter_ok /\ {"counterfactuality"} \subseteq payments.val.cols
        \* lines 342-348
        years == Sorted({get_fiscal_year(payments.val.rows[i].date) :
                            i \in 1..Len(payments.val.rows)})
    IN  [df_payments_converted |->
             IF payments_ok THEN payments.val ELSE EmptyDataFrame,
         df_pledges_converted |->
             IF segregate_ok THEN renamed
             ELSE IF pledges_ok THEN pledges.val ELSE EmptyDataFrame,
         counterfactual_df |->
             IF moved_ok
             THEN DataFrame(payments.val.cols \cup {"counterfactual_moved"},
                      [i \in 1..Len(kept) |->
                          kept[i] @@ ("counterfactual_moved" :>
                              Mul(kept[i].amount_usd,
                                  kept[i].counterfactuality))])
             ELSE IF filter_ok THEN DataFrame(payments.val.cols, kept)
             ELSE EmptyDataFrame,
         available_fiscal_years |-> IF moved_ok THEN years ELSE <<>>,
         current_fiscal_year |->
             IF moved_ok /\ Len(years) > 0 THEN years[Len(years)] ELSE NoData,
         Merged_INNER |-> IF merge_ok THEN merged.val ELSE Undefined,
         completed |-> moved_ok]

\* the tables of at most MaxRows rows over a set of rows
Tables(cols, RowSet) ==
    {DataFrame(cols, rows) : rows \in UNION {[1..n -> RowSet] : n \in 0..MaxRows}}

\* two successive readings of the clock
NowPairs == {now \in NowSet \X NowSet : TsLe(now[1], now[2])}

----------------------------------------------------------------------------
(* Calls.  An operation is invoked when no call is in progress (Idle); its
   arguments and result stay in call until the caller has taken the result
   (Return). *)

Idle == call.op = "none"

Return ==
    /\ ~Idle
    /\ call' = [op |-> "none"]
    /\ UNCHANGED <<globals, requests, layout>>

\* the start-up block on the files of a set of inputs
Startup(Inputs) ==
    /\ pc = "start"
    /\ Idle
    /\ \E input \in Inputs :
          \E loaded \in {LoadData(input.Pledge, input.Payments,
                                  input.rates_present, input.rates)} :
              /\ df_payments_converted' = loaded.df_payments_converted
              /\ df_pledges_converted' = loaded.df_pledges_converted
              /\ counterfactual_df' = loaded.counterfactual_df
              /\ available_fiscal_years' = loaded.available_fiscal_years
              /\ current_fiscal_year' = loaded.current_fiscal_year
              /\ Merged_INNER' = loaded.Merged_INNER
              /\ pc' = IF loaded.completed THEN "loaded" ELSE "failed"
    /\ UNCHANGED <<call, requests, layout>>

----------------------------------------------------------------------------
(* Calls of the fiscal year calculator *)

Years == 2022..2025

\* every calendar day of Years, at midnight and at noon
Dates ==
    {TS(y, m, d, t) : y \in Years, m \in 1..12, d \in 1..31, t \in {0, 43200}}
        \ {ts \in [year : Years, month : 1..12, day : 29..31, tod : {0, 43200}] :
              ts.day > DaysInMonth(ts.year, ts.month)}

\* texts that are not labels of a fiscal year, and labels of two years that
\* do not follow each other
OddLabels ==
    { NoData,
      <<>>,
      <<"F", "Y", "2", "0", "2", "3">>,
      <<"F", "Y", "2", "0", "2", "3", "-">>,
      <<"F", "Y", "2", "0", "2", "3", "-", "2", "0", "2", "5">>,
      <<"F", "Y", "2", "0", "2", "4", "-", "2", "0", "2", "3">>,
      <<"F", "Y", "2", "0", "2", "3", "-", "2", "0", "2", "3">>,
      <<"2", "0", "2", "3", "-", "2", "0", "2", "4">>,
      <<"F", "Y", "2", "0", "2", "3", "-", "a", "b", "c", "d">>,
      <<"F", "Y", "x", "-", "2", "0", "2", "4">>,
      <<"F", "Y", " ", "2", "0", "2", "3", "-", "2", "0", "2", "4">>,
      <<"F", "Y", "2", "0", "2", "3", "-", "2", "0", "2", "4", "-", "Q", "1">>,
      <<"F", "Y", "9", "9", "9", "9", "-", "2", "0", "2", "4">> }

Labels == {get_fiscal_year(d) : d \in Dates} \cup OddLabels

GetFiscalYear ==
    /\ Idle
    /\ \E date \in Dates :
          call' = [op |-> "get_fiscal_year", arg |-> date,
                   ret |-> get_fiscal_year(date)]
    /\ UNCHANGED <<globals, requests, layout>>

GetFiscalYearRange ==
    /\ Idle
    /\ \E fiscal_year \in Labels, now \in NowPairs :
          call' = [op |-> "get_fiscal_year_range", arg |-> fiscal_year,
                   now |-> now,
                   ret |-> Ok(get_fiscal_year_range(fiscal_year, now))]
    /\ UNCHANGED <<globals, requests, layout>>

FiscalMonth ==
    /\ Idle
    /\ \E x \in Dates :
          call' = [op |-> "fiscal_month", arg |-> x, ret |-> fiscal_month(x)]
    /\ UNCHANGED <<globals, requests, layout>>

NextFY == GetFiscalYear \/ GetFiscalYearRange \/ FiscalMonth \/ Return

SpecFY == Init /\ [][NextFY]_vars

----------------------------------------------------------------------------
(* Calls of the money-moved metrics *)

PaymentCols == {"date", "amount_usd", "portfolio", "counterfactuality"}

GlobalHealth == "Global Health Fund"
NoPortfolio == "<NA>"

Payment(date, amount_usd, portfolio, counterfactuality) ==
    [date |-> date, amount_usd |-> amount_usd, portfolio |-> portfolio,
     counterfactuality |-> counterfactuality]

\* the days around the two ends of fiscal year 2023-2024
BoundaryDates ==
    {Day(2023, 6, 30), TS(2023, 6, 30, 43200), Day(2023, 7, 1),
     Day(2024, 6, 30), TS(2024, 6, 30, 43200), Day(2024, 7, 1)}

\* rows for calculate_money_moved: every boundary date; two donations, a
\* refund and a missing amount
MoneyMovedRows ==
    {Payment(d, a, GlobalHealth, <<1, 2>>) :
        d \in BoundaryDates, a \in {Num(100), <<7407, 100>>, Num(-40), NaN}}

\* rows for calculate_counterfactual_mm: every portfolio inside and outside
\* the fiscal year, and rows with a missing or a full weight or a missing
\* amount
CounterfactualRows ==
    {Payment(d, Num(100), p, <<1, 2>>) :
        d \in {Day(2023, 7, 1), Day(2024, 6, 30), Day(2024, 7, 1)},
        p \in {DiscretionaryFund, OperatingCosts, GlobalHealth, NoPortfolio}}
    \cup {Payment(Day(2023, 7, 1), Num(40), GlobalHealth, Num(1)),
          Payment(Day(2023, 7, 1), Num(40), GlobalHealth, NaN),
          Payment(Day(2023, 7, 1), NaN, GlobalHealth, <<1, 2>>),
          \* a refund, and a weight above 1
          Payment(Day(2023, 7, 1), Num(-100), GlobalHealth, <<1, 2>>),
          Payment(Day(2023, 7, 1), Num(40), GlobalHealth, <<3, 2>>)}

\* no fiscal year, two fiscal years, and the default of the dropdowns
Scopes == {<<>>, FY2023, FY2024, NoData}

CalculateMoneyMoved ==
    /\ Idle
    /\ \E df \in Tables(PaymentCols, MoneyMovedRows) \cup {EmptyDataFrame},
          fiscal_year \in Scopes, now \in NowPairs :
          call' = [op |-> "calculate_money_moved", df |-> df,
                   fiscal_year |-> fiscal_year, now |-> now,
                   ret |-> calculate_money_moved(df, fiscal_year, now)]
    /\ UNCHANGED <<globals, requests, layout>>

CalculateCounterfactualMM ==
    /\ Idle
    /\ \E df \in Tables(PaymentCols, CounterfactualRows) \cup {EmptyDataFrame},
          fiscal_year \in Scopes, now \in NowPairs :
          call' = [op |-> "calculate_counterfactual_mm", df |-> df,
                   fiscal_year |-> fiscal_year, now |-> now,
                   ret |-> calculate_counterfactual_mm(df, fiscal_year, now)]
    /\ UNCHANGED <<globals, requests, layout>>

NextMM ==
    CalculateMoneyMoved \/ CalculateCounterfactualMM \/ GetFiscalYearRange
        \/ Return

SpecMM == Init /\ [][NextMM]_vars

----------------------------------------------------------------------------
(* Calls of the currency normaliser *)

Currencies == {"GBP", "CAD", "AUD", "EUR", "SGD", "CHF"}

\* the codes the tables hold, USD, and a currency without a rate table
AnyCurrency == Currencies \cup {"USD", "JPY"}

\* two consecutive days, and a timestamp within the first
RateDay1 == Day(2024, 3, 1)
RateDay2 == Day(2024, 3, 2)
RateDay1Noon == TS(2024, 3, 1, 43200)

\* the rate of each currency on the first day, as FRED quotes it
RateOf(c) ==
    CASE c = "GBP" -> <<5, 4>>
      [] c = "CAD" -> <<27, 20>>
      [] c = "AUD" -> <<13, 20>>
      [] c = "EUR" -> <<27, 25>>
      [] c = "SGD" -> <<67, 50>>
      [] c = "CHF" -> <<9, 10>>

\* A rate table as Exchange_Rate_Script.py writes it, one row a day: with a
\* rate on both days ("full"), with the second day left missing by the
\* backward fill ("tail_gap"), or ending on the first day ("short"); and a
\* table no run of the script writes, with two rows for the first day
\* ("doubled").
RateTable(c, shape) ==
    CASE shape = "full" ->
            <<[date |-> RateDay1, rate |-> RateOf(c)],
              [date |-> RateDay2, rate |-> Add(RateOf(c), <<1, 10>>)]>>
      [] shape = "tail_gap" ->
            <<[date |-> RateDay1, rate |-> RateOf(c)],
              [date |-> RateDay2, rate |-> NaN]>>
      [] shape = "short" ->
            <<[date |-> RateDay1, rate |-> RateOf(c)]>>
      [] shape = "doubled" ->
            <<[date |-> RateDay1, rate |-> RateOf(c)],
              [date |-> RateDay1, rate |-> RateOf(c)],
              [date |-> RateDay2, rate |-> Add(RateOf(c), <<1, 10>>)]>>

\* the six tables: all full, or one of them with a gap or short
RateShapes ==
    {[c \in Currencies |-> "full"]}
    \cup {[c \in Currencies |-> IF c = d THEN sh ELSE "full"] :
             d \in Currencies, sh \in {"tail_gap", "short"}}

RawPaymentCols == {"date", "amount", "currency"}
RawPledgeCols == {"pledge_created_at", "contribution_amount", "currency"}

RawPayment(date, amount, currency) ==
    [date |-> date, amount |-> amount, currency |-> currency]

RawPledge(date, amount, currency) ==
    [pledge_created_at |-> date, contribution_amount |-> amount,
     currency |-> currency]

\* (date, amount, currency) of the rows to convert: 100 units of every
\* currency at the three timestamps, and a missing amount in four of them
RowInputs ==
    ({RateDay1, RateDay2, RateDay1Noon} \X {Num(100)} \X AnyCurrency)
    \cup ({RateDay1} \X {NaN} \X {"USD", "GBP", "CAD", "JPY"})

NonEmpty(tables) == {t \in tables : Len(t.rows) > 0}

ConvertPaymentsToUsd ==
    /\ Idle
    /\ \E payments_df \in NonEmpty(Tables(RawPaymentCols,
              {RawPayment(x[1], x[2], x[3]) : x \in RowInputs})),
          sh \in RateShapes :
          LET rates == [c \in Currencies |-> RateTable(c, sh[c])]
          IN  call' = [op |-> "convert_payments_to_usd", df |-> payments_df,
                       rates |-> rates,
                       ret |-> convert_payments_to_usd(payments_df,
                                   rates["GBP"], rates["CAD"], rates["AUD"],
                                   rates["EUR"], rates["SGD"], rates["CHF"])]
    /\ UNCHANGED <<globals, requests, layout>>

ConvertPledgesToUsd ==
    /\ Idle
    /\ \E pledge_df \in NonEmpty(Tables(RawPledgeCols,
              {RawPledge(x[1], x[2], x[3]) : x \in RowInputs})),
          sh \in RateShapes :
          LET rates == [c \in Currencies |-> RateTable(c, sh[c])]
          IN  call' = [op |-> "convert_pledges_to_usd", df |-> pledge_df,
                       rates |-> rates,
                       ret |-> convert_pledges_to_usd(pledge_df,
                                   rates["GBP"], rates["CAD"], rates["AUD"],
                                   rates["EUR"], rates["SGD"], rates["CHF"])]
    /\ UNCHANGED <<globals, requests, layout>>

NextConv == ConvertPaymentsToUsd \/ ConvertPledgesToUsd \/ Return

SpecConv == Init /\ [][NextConv]_vars

\* the caller passes the table a conversion returned to a second conversion
\* with the same rate tables; first keeps what the first one returned
ConvertPaymentsAgain ==
    /\ call.op = "convert_payments_to_usd"
    /\ "first" \notin DOMAIN call
    /\ ~call.ret.raised
    /\ call' = [op |-> "convert_payments_to_usd", df |-> call.ret.val,
                rates |-> call.rates, first |-> call.ret.val,
                ret |-> convert_payments_to_usd(call.ret.val,
                            call.rates["GBP"], call.rates["CAD"],
                            call.rates["AUD"], call.rates["EUR"],
                            call.rates["SGD"], call.rates["CHF"])]
    /\ UNCHANGED <<globals, requests, layout>>

NextNormalize == ConvertPaymentsToUsd \/ ConvertPaymentsAgain \/ Return

SpecNormalize == Init /\ [][NextNormalize]_vars

\* the rate tables a caller may pass: those of RateShapes, and the six with
\* one of them doubled
AnyRateShapes ==
    RateShapes
    \cup {[c \in Currencies |-> IF c = d THEN "doubled" ELSE "full"] :
             d \in Currencies}

\* (date, amount, currency) of rows of three currencies at three timestamps
FewRowInputs ==
    {RateDay1, RateDay2, RateDay1Noon} \X {Num(100)} \X {"USD", "GBP", "CAD"}

ConvertPaymentsAnyRates ==
    /\ Idle
    /\ \E payments_df \in NonEmpty(Tables(RawPaymentCols,
              {RawPayment(x[1], x[2], x[3]) : x \in FewRowInputs})),
          sh \in AnyRateShapes :
          LET rates == [c \in Currencies |-> RateTable(c, sh[c])]
          IN  call' = [op |-> "convert_payments_to_usd", df |-> payments_df,
                       rates |-> rates,
                       ret |-> convert_payments_to_usd(payments_df,
                                   rates["GBP"], rates["CAD"], rates["AUD"],
                                   rates["EUR"], rates["SGD"], rates["CHF"])]
    /\ UNCHANGED <<globals, requests, layout>>

ConvertPledgesAnyRates ==
    /\ Idle
    /\ \E pledge_df \in NonEmpty(Tables(RawPledgeCols,
              {RawPledge(x[1], x[2], x[3]) : x \in FewRowInputs})),
          sh \in AnyRateShapes :
          LET rates == [c \in Currencies |-> RateTable(c, sh[c])]
          IN  call' = [op |-> "convert_pledges_to_usd", df |-> pledge_df,
                       rates |-> rates,
                       ret |-> convert_pledges_to_usd(pledge_df,
                                   rates["GBP"], rates["CAD"], rates["AUD"],
                                   rates["EUR"], rates["SGD"], rates["CHF"])]
    /\ UNCHANGED <<globals, requests, layout>>

NextAnyRates == ConvertPaymentsAnyRates \/ ConvertPledgesAnyRates \/ Return

SpecAnyRates == Init /\ [][NextAnyRates]_vars

----------------------------------------------------------------------------
(* The rate tables (src/Exchange_Rate_Script.py) *)

\* the longest history window, in days
MaxDays == 5

\* the calendar day after a day
NextDay(d) ==
    IF d.day < DaysInMonth(d.year, d.month) THEN Day(d.year, d.month, d.day + 1)
    ELSE IF d.month < 12 THEN Day(d.year, d.month + 1, 1)
    ELSE Day(d.year + 1, 1, 1)

\* a range of days that stops the day before its end
RECURSIVE date_range_exclusive(_, _)
date_range_exclusive(start, end) ==
    IF ~TsLe(start, end) \/ start = end THEN <<>>
    ELSE <<start>> \o date_range_exclusive(NextDay(start), end)

\* pd.date_range(start=start, end=end, freq='D')
RECURSIVE date_range(_, _)
date_range(start, end) ==
    IF ~TsLe(start, end) THEN <<>>
    ELSE <<start>> \o date_range(NextDay(start), end)

\* df.reindex(all_dates): a row for each date, with the rate the series has
\* on it or a missing rate
Reindex(df, all_dates) ==
    [i \in 1..Len(all_dates) |->
        LET m == RateMatches(df, all_dates[i])
        IN  [date |-> all_dates[i],
             rate |-> IF Len(m) = 0 THEN NaN ELSE m[1].rate]]

\* a fill that carries the last rate forward
RECURSIVE Ffill(_)
Ffill(rows) ==
    IF Len(rows) = 0 THEN <<>>
    ELSE LET n == Len(rows)
             before == Ffill(SubSeq(rows, 1, n - 1))
         IN  IF IsNaN(rows[n].rate) /\ n > 1
             THEN before \o <<[rows[n] EXCEPT !.rate = before[n - 1].rate]>>
             ELSE before \o <<rows[n]>>

\* DataFrame.bfill(): a missing rate takes the next rate that is not missing
RECURSIVE Bfill(_)
Bfill(rows) ==
    IF Len(rows) = 0 THEN <<>>
    ELSE LET after == Bfill(Tail(rows))
         IN  IF IsNaN(Head(rows).rate) /\ Len(after) > 0
             THEN <<[Head(rows) EXCEPT !.rate = after[1].rate]>> \o after
             ELSE <<Head(rows)>> \o after

\* what web.DataReader gives for a currency: the series, or an exception
Fetched(df) == [raised |-> FALSE, df |-> df]
FetchError == [raised |-> TRUE, df |-> <<>>]

\* get_historical_exchange_rates(start_date, end_date), source[c] being
\* what FRED answers for currency c: the file written for each currency
\* (rows [date, rate], the columns DATE and the FRED code of the csv), or no
\* file when the body of the loop raised
get_historical_exchange_rates(source, start_date, end_date) ==
    [c \in Currencies |->
        IF source[c].raised THEN [written |-> FALSE, rows |-> <<>>]
        ELSE LET all_dates == date_range(start_date, end_date)
                 df_full == Bfill(Reindex(source[c].df, all_dates))
             IN  [written |-> TRUE, rows |-> df_full]]

\* the first day of the history windows of the model: the window crosses
\* the leap day of 2024
FirstDay == Day(2024, 2, 27)

\* the n-th day from FirstDay (n >= 1)
RECURSIVE DayNo(_)
DayNo(n) == IF n = 1 THEN FirstDay ELSE NextDay(DayNo(n - 1))

\* the rate FRED has for currency c on the n-th day
SourceRate(c, n) == Add(RateOf(c), <<n, 100>>)

\* what FRED has on each day from the a-th to the b-th: no observation
\* (a weekend), an observation without a value (a holiday), or a rate
Observations(a, b) == [a..b -> {"none", "empty", "rate"}]

\* the series of currency c for the observations obs of days a..b
RECURSIVE Series(_, _, _, _)
Series(c, obs, a, b) ==
    IF a > b THEN <<>>
    ELSE (IF obs[a] = "none" THEN <<>>
          ELSE <<[date |-> DayNo(a),
                  rate |-> IF obs[a] = "rate" THEN SourceRate(c, a) ELSE NaN]>>)
         \o Series(c, obs, a + 1, b)

\* A run of the script on a window of at most MaxDays days (or on an empty
\* window, the end before the start); every currency has the same
\* observation days, and at most one fetch fails.
GetHistoricalExchangeRates ==
    /\ Idle
    /\ \E a \in 1..2, b \in 1..MaxDays :
          \E obs \in Observations(a, b),
             failed \in {{}} \cup {{c} : c \in Currencies} :
             LET source == [c \in Currencies |->
                               IF c \in failed THEN FetchError
                               ELSE Fetched(Series(c, obs, a, b))]
             IN  call' = [op |-> "get_historical_exchange_rates",
                          start_date |-> DayNo(a), end_date |-> DayNo(b),
                          source |-> source,
                          ret |-> get_historical_exchange_rates(source,
                                      DayNo(a), DayNo(b))]
    /\ UNCHANGED <<globals, requests, layout>>

NextRates == GetHistoricalExchangeRates \/ Return

SpecRates == Init /\ [][NextRates]_vars

----------------------------------------------------------------------------
(* The dashboard after start-up: the pledge KPIs *)

PledgeCsvCols ==
    {"pledge_id", "donor_id", "pledge_status", "pledge_created_at",
     "pledge_starts_at", "pledge_ended_at", "contribution_amount", "currency",
     "frequency", "chapter_type"}

PaymentsCsvCols ==
    {"date", "amount", "currency", "portfolio", "counterfactuality",
     "pledge_id"}

\* a pledge of 100 USD created on the first rate day
PledgeRow(status, starts_at, frequency) ==
    [pledge_id |-> "p", donor_id |-> "d", pledge_status |-> status,
     pledge_created_at |-> RateDay1, pledge_starts_at |-> starts_at,
     pledge_ended_at |-> NaT, contribution_amount |-> Num(100),
     currency |-> "USD", frequency |-> frequency,
     chapter_type |-> <<"U", "G">>]

\* pledges of two statuses and three frequencies, starting in July and in
\* January of fiscal year 2023-2024 and on the first day of the next one
PledgeRows ==
    {PledgeRow(st, d, f) :
        st \in {"Active donor", "Pledged donor"},
        d \in {Day(2023, 7, 15), Day(2024, 1, 10), Day(2024, 7, 1)},
        f \in {"monthly", "quarterly", "One-Time"}}
    \cup {PledgeRow("Active donor", Day(2023, 12, 5), "annually"),
          PledgeRow("Churned donor", Day(2023, 7, 15), "monthly")}

OnePayment ==
    <<[date |-> RateDay1, amount |-> Num(100), currency |-> "USD",
       portfolio |-> GlobalHealth, counterfactuality |-> <<1, 2>>,
       pledge_id |-> "p"]>>

FullRates == [c \in Currencies |-> RateTable(c, "full")]

\* Pledge.csv with its first row (dropped by the block) and up to MaxRows
\* pledges, beside one payment and the six full rate tables; or no
\* Pledge.csv at all
PledgeInputs ==
    {[Pledge |-> File(PledgeCsvCols, <<PledgeRow("", NaT, "")>> \o t.rows),
      Payments |-> File(PaymentsCsvCols, OnePayment),
      rates_present |-> TRUE, rates |-> FullRates] :
        t \in NonEmpty(Tables(PledgeCsvCols, PledgeRows))}
    \cup {[Pledge |-> MissingFile,
           Payments |-> File(PaymentsCsvCols, OnePayment),
           rates_present |-> TRUE, rates |-> FullRates]}

StartupPledges == Startup(PledgeInputs)

\* the positions of the month slider: every month, July only, the second
\* half of the fiscal year
MonthRanges == {<<0, 11>>, <<0, 0>>, <<6, 11>>}

CalculateArrByChannel ==
    /\ Idle
    /\ pc # "start"
    /\ \E fiscal_year \in Scopes, now \in NowPairs :
          call' = [op |-> "calculate_arr_by_channel",
                   df |-> df_pledges_converted,
                   fiscal_year |-> fiscal_year, now |-> now,
                   ret |-> calculate_arr_by_channel(df_pledges_converted,
                                                    fiscal_year, now)]
    /\ UNCHANGED <<globals, requests, layout>>

UpdateActiveArr ==
    /\ Idle
    /\ pc # "start"
    /\ \E fiscal_year \in Scopes, now \in NowPairs :
          call' = [op |-> "update_active_arr", fiscal_year |-> fiscal_year,
                   now |-> now,
                   ret |-> update_active_arr(df_pledges_converted,
                                             fiscal_year, now)]
    /\ UNCHANGED <<globals, requests, layout>>

UpdatePledgeKpis ==
    /\ Idle
    /\ pc # "start"
    /\ \E fiscal_year \in Scopes, month_range \in MonthRanges,
          now \in NowPairs :
          call' = [op |-> "update_pledge_kpis", fiscal_year |-> fiscal_year,
                   month_range |-> month_range, now |-> now,
                   ret |-> update_pledge_kpis(df_pledges_converted,
                               fiscal_year, month_range, now)]
    /\ UNCHANGED <<globals, requests, layout>>

\* The dashboard process: the start-up block, then the operations invoked
\* on the loaded tables.
Next ==
    StartupPledges \/ CalculateArrByChannel \/ UpdateActiveArr
        \/ UpdatePledgeKpis \/ Return

Spec == Init /\ [][Next]_vars

----------------------------------------------------------------------------
(* Callbacks running at the same time.  The server runs each callback in a
   thread of its own; a callback is a sequence of steps, each reading the
   tables of the module or working on tables of its own. *)

\* update_counterfactual_mm(fiscal_year), run from its first line to its
\* last on the table of the module
update_counterfactual_mm(table, fiscal_year, now) ==
    IF Len(fiscal_year) = 0 THEN Ok(NoDataText)
    ELSE LET total_cf == calculate_counterfactual_mm(table, fiscal_year, now)
         IN  IF total_cf.raised THEN Raised ELSE Ok(FormatMoney(total_cf.val))

\* lines 120-123: filtered_df, a new table of the rows kept
counterfactual_filter(df) ==
    IF ~({"portfolio"} \subseteq df.cols) THEN Raised
    ELSE Ok(DataFrame(df.cols, SelectSeq(df.rows, NotInternalFund)))

\* the counterfactual_amount column of a table
WithCounterfactualAmount(t) ==
    DataFrame(t.cols \cup {"counterfactual_amount"},
        [i \in 1..Len(t.rows) |->
            SetColumn(t.rows[i], "counterfactual_amount",
                Mul(t.rows[i].amount_usd, t.rows[i].counterfactuality))])

\* the assignment of lines 125-126 reaching the table filtered_df was taken
\* from as well
counterfactual_assign_through(df, filtered_df) ==
    IF ~({"amount_usd", "counterfactuality"} \subseteq filtered_df.cols)
    THEN [raised |-> TRUE, df |-> df, filtered_df |-> filtered_df]
    ELSE [raised |-> FALSE, df |-> WithCounterfactualAmount(df),
          filtered_df |-> WithCounterfactualAmount(filtered_df)]

\* lines 125-126: what the assignment to filtered_df['counterfactual_amount']
\* leaves in df, the table passed in, and in filtered_df
counterfactual_assign(df, filtered_df) ==
    IF ~({"amount_usd", "counterfactuality"} \subseteq filtered_df.cols)
    THEN [raised |-> TRUE, df |-> df, filtered_df |-> filtered_df]
    ELSE [raised |-> FALSE, df |-> df,
          filtered_df |-> WithCounterfactualAmount(filtered_df)]

\* lines 128-136: the sum over filtered_df, for a fiscal year
counterfactual_sum(filtered_df, fiscal_year, now) ==
    IF Len(fiscal_year) > 0
    THEN IF ~({"date"} \subseteq filtered_df.cols) THEN Raised
         ELSE LET range == get_fiscal_year_range(fiscal_year, now)
                  year_df == SelectSeq(filtered_df.rows,
                                 LAMBDA r : InRange(r.date, range))
              IN  Ok(SumSkipNa(Column(year_df, "counterfactual_amount")))
    ELSE Ok(SumSkipNa(Column(filtered_df.rows, "counterfactual_amount")))

\* lines 2421-2432 of update_pledge_kpis: pledges, a copy of the pledges
\* table cut to the fiscal year
pledge_kpis_copy(pledges_table, fiscal_year, now) ==
    IF ~({"pledge_starts_at"} \subseteq pledges_table.cols) THEN Raised
    ELSE LET range == get_fiscal_year_range(fiscal_year, now)
         IN  Ok(DataFrame(pledges_table.cols,
                    SelectSeq(pledges_table.rows, LAMBDA r :
                        InRange(r.pledge_starts_at, range))))

\* lines 2435-2436: what the assignment to pledges['fiscal_month'] leaves in
\* the pledges table of the module and in pledges
pledge_kpis_assign(pledges_table, pledges) ==
    [pledges_table |-> pledges_table,
     pledges |->
         DataFrame(pledges.cols \cup {"fiscal_month"},
             [i \in 1..Len(pledges.rows) |->
                 SetColumn(pledges.rows[i], "fiscal_month",
                     fiscal_month(pledges.rows[i].pledge_starts_at))])]

\* lines 2424 and 2438-2476: the six texts, from pledges
pledge_kpis_result(pledges, month_range) ==
    IF ~({"pledge_status", "amount_usd", "frequency"} \subseteq pledges.cols)
    THEN Raised
    ELSE LET start_month == month_range[1] + 1
             end_month == month_range[2] + 1
             kept == SelectSeq(pledges.rows, LAMBDA r :
                         /\ r.fiscal_month >= start_month
                         /\ r.fiscal_month <= end_month)
             active_arr == calculate_arr(kept, "Active donor")
             future_arr == calculate_arr(kept, "Pledged donor")
         IN  Ok(<<FormatCount(CountRows(kept,
                                        {"Active donor", "Pledged donor"})),
                  FormatCount(CountRows(kept, {"Active donor"})),
                  FormatCount(CountRows(kept, {"Pledged donor"})),
                  FormatMoney(Add(active_arr, future_arr)),
                  FormatMoney(active_arr),
                  FormatMoney(future_arr)>>)

\* the six "Error" texts of the except clause of update_pledge_kpis
SixErrors == Ok([k \in 1..6 |-> ErrorText])

\* Pledge.csv with two pledges and Payments.csv with two payments, one of
\* them to the operating costs; or no Pledge.csv
SharedInputs ==
    {[Pledge |-> File(PledgeCsvCols,
                     <<PledgeRow("", NaT, ""),
                       PledgeRow("Active donor", Day(2023, 7, 15), "monthly"),
                       PledgeRow("Pledged donor", Day(2024, 1, 10),
                                 "quarterly")>>),
      Payments |-> File(PaymentsCsvCols,
                       OnePayment \o
                       <<[date |-> RateDay2, amount |-> Num(100),
                          currency |-> "USD", portfolio |-> OperatingCosts,
                          counterfactuality |-> <<1, 2>>, pledge_id |-> "p"]>>),
      rates_present |-> TRUE, rates |-> FullRates],
     [Pledge |-> MissingFile,
      Payments |-> File(PaymentsCsvCols, OnePayment),
      rates_present |-> TRUE, rates |-> FullRates]}

StartupShared == Startup(SharedInputs)

\* the values of the fiscal year dropdowns: cleared, a fiscal year, and the
\* default after a failed load
CallbackScopes == {<<>>, FY2023, NoData}

\* A thread takes update_counterfactual_mm and runs it to the end of lines
\* 120-123 of calculate_counterfactual_mm.
CounterfactualMMFilter ==
    /\ pc # "start"
    /\ \E r \in Requests, fiscal_year \in CallbackScopes :
          /\ requests[r] = IdleRequest
          /\ LET filtered == counterfactual_filter(counterfactual_df)
                 begun == [op |-> "update_counterfactual_mm",
                           fiscal_year |-> fiscal_year]
             IN  requests' = [requests EXCEPT ![r] =
                     IF Len(fiscal_year) = 0
                     THEN begun @@ [pos |-> "done", ret |-> Ok(NoDataText)]
                     ELSE IF filtered.raised
                     THEN begun @@ [pos |-> "done", ret |-> Raised]
                     ELSE begun @@ [pos |-> "filtered",
                                    filtered_df |-> filtered.val]]
    /\ UNCHANGED <<globals, call, layout>>

\* lines 125-126
CounterfactualMMAssign ==
    /\ \E r \in Requests :
          /\ requests[r].pos = "filtered"
          /\ LET assigned == counterfactual_assign(counterfactual_df,
                                                   requests[r].filtered_df)
                 begun == [op |-> "update_counterfactual_mm",
                           fiscal_year |-> requests[r].fiscal_year]
             IN  /\ counterfactual_df' = assigned.df
                 /\ requests' = [requests EXCEPT ![r] =
                        IF assigned.raised
                        THEN begun @@ [pos |-> "done", ret |-> Raised]
                        ELSE begun @@ [pos |-> "assigned",
                                       filtered_df |-> assigned.filtered_df]]
    /\ UNCHANGED <<df_payments_converted, df_pledges_converted,
                   available_fiscal_years, current_fiscal_year, Merged_INNER,
                   pc, call, layout>>

\* lines 128-136 and the return of update_counterfactual_mm
CounterfactualMMSum ==
    /\ \E r \in Requests, now \in NowPairs :
          /\ requests[r].pos = "assigned"
          /\ LET total_cf == counterfactual_sum(requests[r].filtered_df,
                                                requests[r].fiscal_year, now)
             IN  requests' = [requests EXCEPT ![r] =
                     [op |-> "update_counterfactual_mm",
                      fiscal_year |-> requests[r].fiscal_year, now |-> now,
                      pos |-> "done",
                      ret |-> IF total_cf.raised THEN Raised
                              ELSE Ok(FormatMoney(total_cf.val))]]
    /\ UNCHANGED <<globals, call, layout>>

\* A thread takes update_pledge_kpis and runs it to the end of line 2432.
PledgeKpisCopy ==
    /\ pc # "start"
    /\ \E r \in Requests, fiscal_year \in CallbackScopes,
          month_range \in {<<0, 11>>, <<6, 11>>}, now \in NowPairs :
          /\ requests[r] = IdleRequest
          /\ LET pledges == pledge_kpis_copy(df_pledges_converted,
                                             fiscal_year, now)
                 begun == [op |-> "update_pledge_kpis",
                           fiscal_year |-> fiscal_year,
                           month_range |-> month_range]
             IN  requests' = [requests EXCEPT ![r] =
                     IF Len(fiscal_year) = 0
                     THEN begun @@ [pos |-> "done",
                                    ret |-> Ok([k \in 1..6 |-> NoDataText])]
                     ELSE IF pledges.raised
                     THEN begun @@ [now |-> now, pos |-> "done",
                                    ret |-> SixErrors]
                     ELSE begun @@ [now |-> now, pos |-> "copied",
                                    pledges |-> pledges.val]]
    /\ UNCHANGED <<globals, call, layout>>

\* lines 2435-2436
PledgeKpisAssign ==
    /\ \E r \in Requests :
          /\ requests[r].pos = "copied"
          /\ LET assigned == pledge_kpis_assign(df_pledges_converted,
                                                requests[r].pledges)
             IN  /\ df_pledges_converted' = assigned.pledges_table
                 /\ requests' = [requests EXCEPT ![r] =
                        [requests[r] EXCEPT !.pos = "with_months",
                                            !.pledges = assigned.pledges]]
    /\ UNCHANGED <<df_payments_converted, counterfactual_df,
                   available_fiscal_years, current_fiscal_year, Merged_INNER,
                   pc, call, layout>>

\* lines 2438-2480
PledgeKpisResult ==
    /\ \E r \in Requests :
          /\ requests[r].pos = "with_months"
          /\ LET result == pledge_kpis_result(requests[r].pledges,
                                              requests[r].month_range)
             IN  requests' = [requests EXCEPT ![r] =
                     [op |-> "update_pledge_kpis",
                      fiscal_year |-> requests[r].fiscal_year,
                      month_range |-> requests[r].month_range,
                      now |-> requests[r].now, pos |-> "done",
                      ret |-> IF result.raised THEN SixErrors ELSE result]]
    /\ UNCHANGED <<globals, call, layout>>

\* the server sends what the callback returned, and the thread is free
Respond ==
    /\ \E r \in Requests :
          /\ requests[r].pos = "done"
          /\ requests' = [requests EXCEPT ![r] = IdleRequest]
    /\ UNCHANGED <<globals, call, layout>>

NextShared ==
    StartupShared \/ CounterfactualMMFilter \/ CounterfactualMMAssign
        \/ CounterfactualMMSum \/ PledgeKpisCopy \/ PledgeKpisAssign
        \/ PledgeKpisResult \/ Respond

SpecShared == Init /\ [][NextShared]_vars

----------------------------------------------------------------------------
(* Calls of the metrics engine on pledge tables *)

PledgeCols ==
    {"pledge_id", "donor_id", "pledge_status", "pledge_starts_at",
     "amount_usd", "frequency", "chapter_type"}

UG == <<"U", "G">>
Corporate == <<"C", "o", "r", "p", "o", "r", "a", "t", "e">>

EnginePledge(id, donor, status, starts_at, amount, frequency, chapter) ==
    [pledge_id |-> id, donor_id |-> donor, pledge_status |-> status,
     pledge_starts_at |-> starts_at, amount_usd |-> amount,
     frequency |-> frequency, chapter_type |-> chapter]

\* a monthly pledge of 100 USD of a status, starting in fiscal year 2023-2024
StatusRow(status) ==
    EnginePledge("p1", "d1", status, Day(2023, 7, 15), Num(100), "monthly", UG)

Statuses ==
    {"Active donor", "Pledged donor", "Payment failure", "Churned donor",
     "One-Time"}

\* ten pledges: two churned, one with a failed payment, seven of another
\* status, in two orders
TenPledges ==
    {DataFrame(PledgeCols,
         <<StatusRow("Churned donor"), StatusRow("Churned donor"),
           StatusRow("Payment failure")>> \o [i \in 1..7 |-> StatusRow(st)]) :
        st \in {"Active donor", "Pledged donor", "One-Time"}}
    \cup {DataFrame(PledgeCols,
             [i \in 1..7 |-> StatusRow(st)] \o
             <<StatusRow("Churned donor"), StatusRow("Payment failure"),
               StatusRow("Churned donor")>>) :
             st \in {"Active donor", "Pledged donor", "One-Time"}}

CalculatePledgeAttritionRate ==
    /\ Idle
    /\ \E df \in Tables(PledgeCols, {StatusRow(st) : st \in Statuses})
                  \cup TenPledges \cup {EmptyDataFrame} :
          call' = [op |-> "calculate_pledge_attrition_rate", df |-> df,
                   ret |-> calculate_pledge_attrition_rate(df)]
    /\ UNCHANGED <<globals, requests, layout>>

\* pledges of two donors and of no known donor, of three statuses
DonorRows ==
    {EnginePledge("p1", d, st, Day(2023, 7, 15), Num(100), "monthly", UG) :
        d \in {"d1", "d2", NoId},
        st \in {"Active donor", "One-Time", "Churned donor"}}

CountActiveDonors ==
    /\ Idle
    /\ \E df \in Tables(PledgeCols, DonorRows) \cup {EmptyDataFrame} :
          call' = [op |-> "count_active_donors", df |-> df,
                   ret |-> count_active_donors(df)]
    /\ UNCHANGED <<globals, requests, layout>>

PledgeIdRows ==
    {EnginePledge(p, "d1", st, Day(2023, 7, 15), Num(100), "monthly", UG) :
        p \in {"p1", "p2", NoId}, st \in {"Active donor", "One-Time"}}

CountActivePledges ==
    /\ Idle
    /\ \E df \in Tables(PledgeCols, PledgeIdRows) \cup {EmptyDataFrame} :
          call' = [op |-> "count_active_pledges", df |-> df,
                   ret |-> count_active_pledges(df)]
    /\ UNCHANGED <<globals, requests, layout>>

\* pledges of two chapters and two statuses inside and outside fiscal year
\* 2023-2024, and active pledges without a chapter, paid by the quarter,
\* and without an amount
ChapterRows ==
    {EnginePledge("p1", "d1", st, d, Num(100), "monthly", ch) :
        st \in {"Active donor", "Churned donor"},
        d \in {Day(2023, 7, 15), Day(2024, 7, 1)},
        ch \in {UG, Corporate}}
    \cup {EnginePledge("p1", "d1", "Active donor", Day(2023, 7, 15), Num(100),
                 "monthly", NoChapter),
          EnginePledge("p1", "d1", "Active donor", Day(2023, 7, 15), Num(100),
                 "quarterly", UG),
          EnginePledge("p1", "d1", "Active donor", Day(2023, 7, 15), NaN,
                 "monthly", Corporate)}

\* no fiscal year, a fiscal year, and the default of the dropdowns
EngineScopes == {<<>>, FY2023, NoData}

CalculateChapterArr ==
    /\ Idle
    /\ \E df \in Tables(PledgeCols, ChapterRows) \cup {EmptyDataFrame},
          fiscal_year \in EngineScopes, now \in NowPairs :
          call' = [op |-> "calculate_chapter_arr", df |-> df,
                   fiscal_year |-> fiscal_year, now |-> now,
                   ret |-> calculate_chapter_arr(df, fiscal_year, now)]
    /\ UNCHANGED <<globals, requests, layout>>

CalculateArrByChannelOfTable ==
    /\ Idle
    /\ \E df \in Tables(PledgeCols, ChapterRows) \cup {EmptyDataFrame},
          fiscal_year \in EngineScopes, now \in NowPairs :
          call' = [op |-> "calculate_arr_by_channel", df |-> df,
                   fiscal_year |-> fiscal_year, now |-> now,
                   ret |-> calculate_arr_by_channel(df, fiscal_year, now)]
    /\ UNCHANGED <<globals, requests, layout>>

\* the seven operations of the metrics engine
NextEngine ==
    CalculateMoneyMoved \/ CalculateCounterfactualMM
        \/ CalculateArrByChannelOfTable \/ CalculatePledgeAttritionRate
        \/ CountActiveDonors \/ CountActivePledges \/ CalculateChapterArr
        \/ Return

SpecEngine == Init /\ [][NextEngine]_vars

----------------------------------------------------------------------------
(* The Objective-page KPIs and the context of the AI insights *)

\* f"{x:.1f}%" of a rate that is not negative
FormatPercent(x) ==
    LET tenths == RoundHalfEven(x[1] * 10, x[2])
    IN  IntStr(tenths \div 10) \o <<".", Digits[(tenths % 10) + 1], "%">>

\* the number a text of digits and thousands separators stands for
CountOf(text) == DigitsVal(SelectSeq(text, IsDigit))

\* df[(df[col] >= start_date) & (df[col] <= end_date)] for a fiscal year
FilterFiscalYear(df, col, fiscal_year, now) ==
    IF ~({col} \subseteq df.cols) THEN Raised
    ELSE Ok(DataFrame(df.cols, SelectSeq(df.rows, LAMBDA r :
                InRange(r[col], get_fiscal_year_range(fiscal_year, now)))))

\* update_money_moved(fiscal_year), on the payments table of the module
update_money_moved(table, fiscal_year, now) ==
    IF Len(fiscal_year) = 0 THEN Ok(NoDataText)
    ELSE LET total_amount == calculate_money_moved(table, fiscal_year, now)
         IN  IF total_amount.raised THEN Raised
             ELSE Ok(FormatMoney(total_amount.val))

\* update_attrition_rate(fiscal_year), on the pledges table of the module
update_attrition_rate(pledges_table, fiscal_year, now) ==
    IF Len(fiscal_year) = 0 THEN Ok(NoDataText)
    ELSE LET filtered_pledges == FilterFiscalYear(pledges_table,
                                     "pledge_starts_at", fiscal_year, now)
         IN  IF filtered_pledges.raised THEN Raised
             ELSE LET attrition_rate ==
                          calculate_pledge_attrition_rate(filtered_pledges.val)
                  IN  IF attrition_rate.raised THEN Raised
                      ELSE Ok(FormatPercent(attrition_rate.val))

\* update_active_donors(fiscal_year), on the pledges table of the module
update_active_donors(pledges_table, fiscal_year, now) ==
    IF Len(fiscal_year) = 0 THEN Ok(NoDataText)
    ELSE LET filtered_pledges == FilterFiscalYear(pledges_table,
                                     "pledge_starts_at", fiscal_year, now)
         IN  IF filtered_pledges.raised THEN Raised
             ELSE LET active_donors_count ==
                          count_active_donors(filtered_pledges.val)
                  IN  IF active_donors_count.raised THEN Raised
                      ELSE Ok(FormatCount(active_donors_count.val))

\* update_active_pledges(fiscal_year), on the pledges table of the module
update_active_pledges(pledges_table, fiscal_year, now) ==
    IF Len(fiscal_year) = 0 THEN Ok(NoDataText)
    ELSE LET filtered_pledges == FilterFiscalYear(pledges_table,
                                     "pledge_starts_at", fiscal_year, now)
         IN  IF filtered_pledges.raised THEN Raised
             ELSE LET active_pledges_count ==
                          count_active_pledges(filtered_pledges.val)
                  IN  IF active_pledges_count.raised THEN Raised
                      ELSE Ok(FormatCount(active_pledges_count.val))

\* df.groupby(col)[value].sum(): one entry for each value of the column,
\* the missing value left out
GroupSums(rows, col, value, missing) ==
    {[key |-> k,
      value |-> SumSkipNa(Column(SelectSeq(rows, LAMBDA r : r[col] = k),
                                 value))] :
        k \in {rows[i][col] : i \in 1..Len(rows)} \ {missing}}

\* the text of the except clause of prepare_dashboard_context
ContextError == [error |-> TRUE]

\* lines 2690-2739 of prepare_dashboard_context: the values written into
\* the text, each under the name of its line, from the two filtered tables.
\* The tables and the six metrics are computed once each, as the
\* assignments of the code do.
ContextText(filtered_payments, filtered_pledges, fiscal_year, now, years) ==
    LET metrics(t) ==
            [payments |-> t.payments,
             pledges |-> t.pledges,
             total_money_moved |->
                 calculate_money_moved(t.payments, fiscal_year, now),
             counterfactual_mm |->
                 calculate_counterfactual_mm(t.payments, fiscal_year, now),
             active_arr |->
                 calculate_arr_by_channel(t.pledges, fiscal_year, now),
             attrition_rate |-> calculate_pledge_attrition_rate(t.pledges),
             active_donors |-> count_active_donors(t.pledges),
             active_pledges |-> count_active_pledges(t.pledges)]
        text(v) ==
            IF \/ v.total_money_moved.raised \/ v.counterfactual_mm.raised
               \/ v.active_arr.raised \/ v.attrition_rate.raised
               \/ v.active_donors.raised \/ v.active_pledges.raised
               \/ ~({"payment_platform", "amount_usd"}
                       \subseteq v.payments.cols)
               \/ ~({"frequency", "amount_usd", "pledge_status",
                      "chapter_type"} \subseteq v.pledges.cols)
            THEN ContextError
            ELSE [error |-> FALSE,
                  fiscal_year |->
                      IF Len(fiscal_year) > 0 THEN fiscal_year
                      ELSE <<"A", "l", "l", " ", "T", "i", "m", "e">>,
                  total_money_moved |-> FormatMoney(v.total_money_moved.val),
                  counterfactual_mm |-> FormatMoney(v.counterfactual_mm.val),
                  active_arr |-> FormatMoney(v.active_arr.val),
                  attrition_rate |-> FormatPercent(v.attrition_rate.val),
                  active_donors |-> IntStr(v.active_donors.val),
                  active_pledges |-> IntStr(v.active_pledges.val),
                  total_mm |-> FormatMoney(v.total_money_moved.val),
                  monthly_avg |->
                      FormatMoney(IF Len(fiscal_year) > 0
                                  THEN Div(v.total_money_moved.val, Num(12))
                                  ELSE Zero),
                  platform_distribution |->
                      GroupSums(v.payments.rows, "payment_platform",
                                "amount_usd", NoId),
                  recurring_vs_onetime |->
                      GroupSums(v.pledges.rows, "frequency", "amount_usd",
                                NoId),
                  total_pledges |->
                      IntStr(CountRows(v.pledges.rows,
                                       {"Active donor", "Pledged donor"})),
                  active_pledge_rows |->
                      IntStr(CountRows(v.pledges.rows, {"Active donor"})),
                  future_pledges |->
                      IntStr(CountRows(v.pledges.rows, {"Pledged donor"})),
                  chapter_performance |->
                      GroupSums(v.pledges.rows, "chapter_type", "amount_usd",
                                NoChapter),
                  available_fiscal_years |-> years]
    IN  CHOOSE ret \in
            {text(v) : v \in
                {metrics(t) : t \in {[payments |-> filtered_payments,
                                      pledges |-> filtered_pledges]}}} :
            TRUE

\* prepare_dashboard_context with the pledges of every fiscal year
prepare_dashboard_context_all_pledges(df_payments, df_pledges, fiscal_year, now, years) ==
    LET filtered_payments ==
            IF Len(fiscal_year) > 0
            THEN FilterFiscalYear(df_payments, "date", fiscal_year, now)
            ELSE Ok(df_payments)
    IN  IF filtered_payments.raised THEN ContextError
        ELSE ContextText(filtered_payments.val, df_pledges,
                         fiscal_year, now, years)

\* prepare_dashboard_context(df_payments, df_pledges, fiscal_year=None);
\* years is available_fiscal_years, which its last line reads.  Without a
\* fiscal year the two filtered tables are the tables passed (lines
\* 2685-2687).
prepare_dashboard_context(df_payments, df_pledges, fiscal_year, now, years) ==
    LET filtered_payments ==
            IF Len(fiscal_year) > 0
            THEN FilterFiscalYear(df_payments, "date", fiscal_year, now)
            ELSE Ok(df_payments)
        filtered_pledges ==
            IF Len(fiscal_year) > 0
            THEN FilterFiscalYear(df_pledges, "pledge_starts_at",
                                  fiscal_year, now)
            ELSE Ok(df_pledges)
    IN  IF filtered_payments.raised \/ filtered_pledges.raised
        THEN ContextError
        ELSE ContextText(filtered_payments.val, filtered_pledges.val,
                         fiscal_year, now, years)

----------------------------------------------------------------------------
(* The dashboard process: the start-up block and the callbacks of its pages *)

\* update_mm_kpis(fiscal_year), on the payments table of the module.  The
\* three values are computed once each, as the assignments of lines
\* 2227-2238 do.
update_mm_kpis(table, fiscal_year, now) ==
    IF Len(fiscal_year) = 0 THEN Ok([k \in 1..3 |-> NoDataText])
    ELSE LET kpis(v) ==
                 LET range == v.range
                     months_diff == (range[2].year - range[1].year) * 12
                                        + (range[2].month - range[1].month) + 1
                     monthly_avg == IF months_diff > 0
                                    THEN Div(v.total_mm.val, Num(months_diff))
                                    ELSE Zero
                 IN  IF v.total_mm.raised \/ v.counterfactual_mm.raised
                     THEN Raised
                     ELSE Ok(<<FormatMoney(v.total_mm.val),
                               FormatMoney(v.counterfactual_mm.val),
                               FormatMoney(monthly_avg)>>)
         IN  CHOOSE ret \in
                 {kpis(v) : v \in
                     {[total_mm |->
                           calculate_money_moved(table, fiscal_year, now),
                       counterfactual_mm |->
                           calculate_counterfactual_mm(table, fiscal_year, now),
                       range |-> get_fiscal_year_range(fiscal_year, now)]}} :
                 TRUE

\* 'One-Time' if x == 'One-Time' else 'Recurring'
payment_type(x) == IF x = "One-Time" THEN "One-Time" ELSE "Recurring"

\* the figures of the except clause of update_mm_breakdown_charts
ChartsError == [error |-> TRUE]

\* update_mm_breakdown_charts(fiscal_year): the data of the charts drawn
\* from Merged_INNER (lines 2282-2311), merged being that table
update_mm_breakdown_charts(table, merged, fiscal_year, now) ==
    IF Len(fiscal_year) = 0 THEN [error |-> FALSE, empty |-> TRUE]
    ELSE IF \/ ~({"date", "payment_platform", "amount_usd"} \subseteq table.cols)
            \/ ~merged.defined
            \/ ~({"date", "chapter_type", "amount_usd_y", "frequency"}
                    \subseteq merged.cols)
    THEN ChartsError
    ELSE LET range == get_fiscal_year_range(fiscal_year, now)
             filtered_merged ==
                 SelectSeq(merged.rows, LAMBDA r : InRange(r.date, range))
             typed == [i \in 1..Len(filtered_merged) |->
                          SetColumn(filtered_merged[i], "payment_type",
                              payment_type(filtered_merged[i].frequency))]
         IN  [error |-> FALSE, empty |-> FALSE,
              filtered_merged |-> filtered_merged,
              chapter_data |->
                  GroupSums(filtered_merged, "chapter_type", "amount_usd_y",
                            NoChapter),
              recurrence_data |->
                  GroupSums(typed, "payment_type", "amount_usd_y", NoId)]

DashPledge(id, donor, status, starts_at, frequency, chapter) ==
    [pledge_id |-> id, donor_id |-> donor, pledge_status |-> status,
     pledge_created_at |-> RateDay1, pledge_starts_at |-> starts_at,
     pledge_ended_at |-> NaT, contribution_amount |-> Num(100),
     currency |-> "USD", frequency |-> frequency, chapter_type |-> chapter]

\* two active pledges of one donor, a churned pledge, and a one-time pledge
\* of the next fiscal year that carries no pledge_id
DashPledges ==
    {DashPledge("p1", "d1", "Active donor", Day(2023, 7, 15), "monthly", UG),
     DashPledge("p2", "d1", "Active donor", Day(2023, 8, 1), "quarterly",
                Corporate),
     DashPledge("p3", "d2", "Churned donor", Day(2023, 7, 15), "monthly", UG),
     DashPledge(NoId, "d3", "One-Time", Day(2024, 7, 1), "One-Time", UG)}

DashPaymentCols ==
    {"payment_id", "date", "amount", "currency", "portfolio",
     "counterfactuality", "payment_platform", "pledge_id"}

DashPayment(id, date, amount, portfolio, platform, pledge_id) ==
    [payment_id |-> id, date |-> date, amount |-> amount, currency |-> "USD",
     portfolio |-> portfolio, counterfactuality |-> <<1, 2>>,
     payment_platform |-> platform, pledge_id |-> pledge_id]

\* a payment of pledge p1 in each of two fiscal years and one at noon of
\* the last day of the first, an anonymous payment to the operating costs,
\* and a payment of a pledge the file does not hold
DashPayments ==
    {DashPayment("a", Day(2023, 8, 1), Num(100), GlobalHealth, "Stripe", "p1"),
     DashPayment("b", Day(2024, 7, 1), Num(40), GlobalHealth, "Stripe", "p1"),
     DashPayment("e", TS(2024, 6, 30, 43200), Num(50), GlobalHealth, "Stripe",
                 "p1"),
     DashPayment("c", Day(2023, 9, 1), Num(60), OperatingCosts, "Benevity",
                 NoId),
     DashPayment("d", Day(2023, 9, 1), Num(25), GlobalHealth, "Benevity",
                 "p9")}

\* the first row of Pledge.csv, which the block drops
FirstPledgeRow == DashPledge("", "", "", NaT, "", <<>>)

FixedPledges ==
    <<DashPledge("p1", "d1", "Active donor", Day(2023, 7, 15), "monthly", UG),
      DashPledge("p3", "d2", "Churned donor", Day(2023, 7, 15), "monthly", UG)>>

FixedPayments ==
    <<DashPayment("a", Day(2023, 8, 1), Num(100), GlobalHealth, "Stripe", "p1"),
      DashPayment("c", Day(2023, 9, 1), Num(60), OperatingCosts, "Benevity",
                  NoId)>>

\* a file without one of its columns
WithoutColumn(file, col) ==
    [present |-> file.present, cols |-> file.cols \ {col},
     rows |-> [i \in 1..Len(file.rows) |->
                  [f \in (DOMAIN file.rows[i]) \ {col} |-> file.rows[i][f]]]]

\* the files of a start-up
Files(pledge, payments, rates_present) ==
    [Pledge |-> pledge, Payments |-> payments,
     rates_present |-> rates_present, rates |-> FullRates]

\* Start-ups that complete: every Pledge.csv of up to MaxRows pledges beside
\* two payments, and every Payments.csv of up to MaxRows payments beside two
\* pledges.
CompleteInputs ==
    {Files(File(PledgeCsvCols, <<FirstPledgeRow>> \o t.rows),
           File(DashPaymentCols, FixedPayments), TRUE) :
        t \in NonEmpty(Tables(PledgeCsvCols, DashPledges))}
    \cup {Files(File(PledgeCsvCols, <<FirstPledgeRow>> \o FixedPledges),
                File(DashPaymentCols, t.rows), TRUE) :
             t \in NonEmpty(Tables(DashPaymentCols, DashPayments))}

\* Start-ups that raise, one for each step of the block that can: a file is
\* missing (lines 209-210), a rate file is missing (line 300), Payments.csv
\* has no amount (line 303), Pledge.csv no currency (line 306), Payments.csv
\* no pledge_id (line 311), Pledge.csv no pledge_id (line 321), Payments.csv
\* no portfolio (line 331) or no counterfactuality (line 338).
FailingInputs ==
    LET pledge == File(PledgeCsvCols, <<FirstPledgeRow>> \o FixedPledges)
        payments == File(DashPaymentCols, FixedPayments)
    IN  {Files(MissingFile, payments, TRUE),
         Files(pledge, MissingFile, TRUE),
         Files(pledge, payments, FALSE),
         Files(pledge, WithoutColumn(payments, "amount"), TRUE),
         Files(WithoutColumn(pledge, "currency"), payments, TRUE),
         Files(pledge, WithoutColumn(payments, "pledge_id"), TRUE),
         Files(WithoutColumn(pledge, "pledge_id"), payments, TRUE),
         Files(pledge, WithoutColumn(payments, "portfolio"), TRUE),
         Files(pledge, WithoutColumn(payments, "counterfactuality"), TRUE)}

StartupDashboard == Startup(CompleteInputs \cup FailingInputs)

\* The callbacks of one fiscal-year dropdown: each is invoked with a value of
\* the dropdown once the block has run, and reads the tables of the module.
UpdateMoneyMoved ==
    /\ Idle
    /\ pc # "start"
    /\ \E fiscal_year \in Scopes, now \in NowPairs :
          call' = [op |-> "update_money_moved", fiscal_year |-> fiscal_year,
                   now |-> now,
                   ret |-> update_money_moved(df_payments_converted,
                               fiscal_year, now)]
    /\ UNCHANGED <<globals, requests, layout>>

UpdateCounterfactualMM ==
    /\ Idle
    /\ pc # "start"
    /\ \E fiscal_year \in Scopes, now \in NowPairs :
          call' = [op |-> "update_counterfactual_mm", fiscal_year |-> fiscal_year,
                   now |-> now,
                   ret |-> update_counterfactual_mm(counterfactual_df,
                               fiscal_year, now)]
    /\ UNCHANGED <<globals, requests, layout>>

UpdateAttritionRate ==
    /\ Idle
    /\ pc # "start"
    /\ \E fiscal_year \in Scopes, now \in NowPairs :
          call' = [op |-> "update_attrition_rate", fiscal_year |-> fiscal_year,
                   now |-> now,
                   ret |-> update_attrition_rate(df_pledges_converted,
                               fiscal_year, now)]
    /\ UNCHANGED <<globals, requests, layout>>

UpdateActiveDonors ==
    /\ Idle
    /\ pc # "start"
    /\ \E fiscal_year \in Scopes, now \in NowPairs :
          call' = [op |-> "update_active_donors", fiscal_year |-> fiscal_year,
                   now |-> now,
                   ret |-> update_active_donors(df_pledges_converted,
                               fiscal_year, now)]
    /\ UNCHANGED <<globals, requests, layout>>

UpdateActivePledges ==
    /\ Idle
    /\ pc # "start"
    /\ \E fiscal_year \in Scopes, now \in NowPairs :
          call' = [op |-> "update_active_pledges", fiscal_year |-> fiscal_year,
                   now |-> now,
                   ret |-> update_active_pledges(df_pledges_converted,
                               fiscal_year, now)]
    /\ UNCHANGED <<globals, requests, layout>>

UpdateMmKpis ==
    /\ Idle
    /\ pc # "start"
    /\ \E fiscal_year \in Scopes, now \in NowPairs :
          call' = [op |-> "update_mm_kpis", fiscal_year |-> fiscal_year,
                   now |-> now,
                   ret |-> update_mm_kpis(df_payments_converted, fiscal_year,
                               now)]
    /\ UNCHANGED <<globals, requests, layout>>

UpdateMmBreakdownCharts ==
    /\ Idle
    /\ pc # "start"
    /\ \E fiscal_year \in Scopes, now \in NowPairs :
          call' = [op |-> "update_mm_breakdown_charts", fiscal_year |-> fiscal_year,
                   now |-> now,
                   ret |-> update_mm_breakdown_charts(
                               df_payments_converted, Merged_INNER,
                               fiscal_year, now)]
    /\ UNCHANGED <<globals, requests, layout>>

\* get_ai_insights(n_clicks, question, current_fiscal_year) up to the
\* prompt: asked is "n_clicks and question"; the answer of the language
\* model is not part of the model
GetAiInsights ==
    /\ Idle
    /\ pc # "start"
    /\ \E asked \in BOOLEAN, fiscal_year \in Scopes, now \in NowPairs :
          call' = [op |-> "get_ai_insights", asked |-> asked,
                   fiscal_year |-> fiscal_year, now |-> now,
                   dashboard_context |->
                       IF asked
                       THEN prepare_dashboard_context(df_payments_converted,
                                df_pledges_converted, fiscal_year, now,
                                available_fiscal_years)
                       ELSE ContextError]
    /\ UNCHANGED <<globals, requests, layout>>

NextDashboard ==
    StartupDashboard \/ UpdateMoneyMoved \/ UpdateCounterfactualMM
        \/ UpdateActiveArr \/ UpdateAttritionRate \/ UpdateActiveDonors
        \/ UpdateActivePledges \/ UpdateMmKpis \/ UpdateMmBreakdownCharts
        \/ UpdatePledgeKpis \/ GetAiInsights \/ Return

SpecDashboard == Init /\ [][NextDashboard]_vars

----------------------------------------------------------------------------
(* Navigation: the six links and switch_page (lines 1740-1959) *)

\* the most clicks of a session of the model
MaxClicks == 4

\* text.split('.')[0]
BeforeDot(text) ==
    LET dots == {k \in 1..Len(text) : text[k] = "."}
    IN  IF dots = {} THEN text
        ELSE SubSeq(text, 1, (CHOOSE k \in dots : \A j \in dots : k <= j) - 1)

\* the twelve outputs of a return statement of switch_page: the style of
\* each page and the active flag of each link, page p being the one shown
Shown(p) ==
    [returned |-> TRUE,
     style |-> [q \in Pages |-> IF q = p THEN "block" ELSE "none"],
     active |-> [q \in Pages |-> q = p]]

\* the function ends without a return statement
ReturnsNone == [returned |-> FALSE]

\* switch_page without its branches: the default of line 1767 always
switch_page_default(triggered) == Shown("objective")

\* switch_page(overview_clicks, ..., insights_clicks) reads none of its six
\* arguments, only callback_context.triggered
switch_page(triggered) ==
    IF Len(triggered) = 0 THEN Shown("objective")
    ELSE LET button_id == BeforeDot(triggered[1].prop_id)
         IN  IF button_id = NavId("overview") THEN Shown("overview")
             ELSE IF button_id = NavId("analysis") THEN Shown("analysis")
             ELSE IF button_id = NavId("objective") THEN Shown("objective")
             ELSE IF button_id = NavId("money") THEN Shown("money")
             ELSE IF button_id = NavId("pledge") THEN Shown("pledge")
             ELSE IF button_id = NavId("insights") THEN Shown("insights")
             ELSE ReturnsNone

RECURSIVE Clicks(_, _)
Clicks(n_clicks, S) ==
    IF S = {} THEN 0
    ELSE LET p == CHOOSE q \in S : TRUE
         IN  n_clicks[p] + Clicks(n_clicks, S \ {p})

\* A click on a navigation link raises its n_clicks and requests switch_page
\* with that property triggered; the browser keeps only the newest request
\* for the outputs of a callback, so a request still in flight is dropped.
ClickNavLink ==
    /\ Idle
    /\ Clicks(layout.n_clicks, Pages) < MaxClicks
    /\ \E p \in Pages :
          LET n_clicks == [layout.n_clicks EXCEPT ![p] = @ + 1]
          IN  layout' = [layout EXCEPT
                  !.n_clicks = n_clicks,
                  !.pending = Request(n_clicks,
                                  <<[prop_id |-> PropId(p),
                                     value |-> n_clicks[p]]>>),
                  !.last = p]
    /\ UNCHANGED <<globals, call, requests>>

\* The server answers the request in flight and the browser sets the twelve
\* outputs; a callback that returns None raises and sets nothing.
SwitchPage ==
    /\ Idle
    /\ layout.pending.sent
    /\ LET ret == switch_page(layout.pending.triggered)
       IN  /\ call' = [op |-> "switch_page",
                       triggered |-> layout.pending.triggered, ret |-> ret]
           /\ layout' = IF ret.returned
                        THEN [layout EXCEPT !.style = ret.style,
                                            !.active = ret.active,
                                            !.pending = NoRequest]
                        ELSE [layout EXCEPT !.pending = NoRequest]
    /\ UNCHANGED <<globals, requests>>

NextNavigation == ClickNavLink \/ SwitchPage \/ Return

SpecNavigation == Init /\ [][NextNavigation]_vars

----------------------------------------------------------------------------
(* Claims about the fiscal year calculator *)

\* the four digits of a year, and the label FYyyyy-yyyy of two years
Year4(y) ==
    <<Digits[(y \div 1000) + 1], Digits[((y \div 100) % 10) + 1],
      Digits[((y \div 10) % 10) + 1], Digits[(y % 10) + 1]>>
Label4(y1, y2) == <<"F", "Y">> \o Year4(y1) \o <<"-">> \o Year4(y2)

\* C6: get_fiscal_year maps a date of July to December of year y to the
\* label FY{y}-{y+1} and a date of January to June of year y to
\* FY{y-1}-{y}; 2024-08-15 gives FY2024-2025 and 2024-03-01 FY2023-2024.
C6_FiscalYearLabel ==
    call.op = "get_fiscal_year" =>
        /\ call.arg.month \in 7..12 =>
              call.ret = Label4(call.arg.year, call.arg.year + 1)
        /\ call.arg.month \in 1..6 =>
              call.ret = Label4(call.arg.year - 1, call.arg.year)
        /\ (call.arg.year = 2024 /\ call.arg.month = 8 /\ call.arg.day = 15) =>
              call.ret = FY2024
        /\ (call.arg.year = 2024 /\ call.arg.month = 3 /\ call.arg.day = 1) =>
              call.ret = FY2023

\* a July date has been labelled with the fiscal year it opens
C6_Witness ==
    /\ call.op = "get_fiscal_year"
    /\ call.arg = Day(2024, 7, 1)
    /\ call.ret = FY2024

\* the text has the form FY<digits>-<digits>
IsYearYearLabel(s) ==
    /\ Len(s) >= 5
    /\ s[1] = "F" /\ s[2] = "Y"
    /\ \E k \in 4..(Len(s) - 1) :
          /\ s[k] = "-"
          /\ \A i \in (3..Len(s)) \ {k} : IsDigit(s[i])

\* C7 as stated: for every label FY<year>-<year> that get_fiscal_year_range
\* parses, the range is a 12-month window July 1 to June 30 and
\* get_fiscal_year of its start and of its end is the label.
C7_InverseForEveryParsedLabel ==
    (/\ call.op = "get_fiscal_year_range"
     /\ IsYearYearLabel(call.arg)
     /\ ParseFiscalYear(call.arg).ok) =>
        /\ get_fiscal_year(call.ret.val[1]) = call.arg
        /\ get_fiscal_year(call.ret.val[2]) = call.arg
        /\ call.ret.val[2].year = call.ret.val[1].year + 1

\* C7 amended: for every label FY{y}-{y+1} of two consecutive four-digit
\* years, get_fiscal_year_range returns July 1 of y to June 30 of y+1,
\* get_fiscal_year of the start and of the end is the label, and no other
\* such label has the same range.
C7_InverseForConsecutiveYears ==
    call.op = "get_fiscal_year_range" =>
        \A y \in 1678..2260 :
            call.arg = Label4(y, y + 1) =>
                /\ call.ret.val = <<Day(y, 7, 1), Day(y + 1, 6, 30)>>
                /\ get_fiscal_year(call.ret.val[1]) = call.arg
                /\ get_fiscal_year(call.ret.val[2]) = call.arg
                /\ \A other \in {Label4(z, z + 1) : z \in Years} \ {call.arg} :
                      get_fiscal_year_range(other, call.now) # call.ret.val

\* the range of FY2023-2024 has been computed
C7_Witness ==
    /\ call.op = "get_fiscal_year_range"
    /\ call.arg = FY2023
    /\ call.ret.val = <<Day(2023, 7, 1), Day(2024, 6, 30)>>

\* C9: the fiscal month of a date is July = 1, ..., December = 6,
\* January = 7, ..., June = 12 (always in 1..12, one fiscal month per
\* calendar month).
C9_FiscalMonthJulyFirst ==
    call.op = "fiscal_month" =>
        /\ call.ret = ((call.arg.month + 5) % 12) + 1
        /\ call.ret \in 1..12
        /\ \A other \in Dates :
              other.month # call.arg.month => fiscal_month(other) # call.ret

----------------------------------------------------------------------------
(* Claims about the money-moved metrics *)

\* the sum of f[i] over the indices of S, a missing value counting as 0
RECURSIVE SumOver(_, _)
SumOver(S, f) ==
    IF S = {} THEN Zero
    ELSE LET i == CHOOSE j \in S : TRUE
         IN  IF IsNaN(f[i]) THEN SumOver(S \ {i}, f)
             ELSE Add(f[i], SumOver(S \ {i}, f))

\* the calendar day of ts lies from July 1 of y to June 30 of y + 1
InFiscalYearDays(ts, y) ==
    \/ ts.year = y /\ ts.month >= 7
    \/ ts.year = y + 1 /\ ts.month <= 6

\* C4: calculate_money_moved(df, fy) is the sum of amount_usd over exactly
\* the payments dated from July 1 of fy's first year to June 30 of its
\* second year, a payment at any time of day on June 30 included; with no
\* fiscal year it is the sum over all payments.
C4_MoneyMovedWholeFiscalYear ==
    (call.op = "calculate_money_moved" /\ call.df.cols = PaymentCols) =>
        LET rows == call.df.rows
            amounts == Column(rows, "amount_usd")
        IN  /\ ~call.ret.raised
            /\ call.fiscal_year = <<>> =>
                  NumEq(call.ret.val, SumOver(1..Len(rows), amounts))
            /\ \A y \in Years :
                  call.fiscal_year = Label4(y, y + 1) =>
                      NumEq(call.ret.val,
                            SumOver({i \in 1..Len(rows) :
                                        InFiscalYearDays(rows[i].date, y)},
                                    amounts))

\* the scope of a call: every timestamp without a fiscal year, July 1 0:00
\* of y to June 30 0:00 of y + 1 for the label FY{y}-{y+1}
InScope(ts, fiscal_year) ==
    \/ fiscal_year = <<>>
    \/ \E y \in Years :
          /\ fiscal_year = Label4(y, y + 1)
          /\ TsLe(Day(y, 7, 1), ts)
          /\ TsLe(ts, Day(y + 1, 6, 30))

C8_MalformedLabelRaises ==
    /\ (call.op = "get_fiscal_year_range" /\ ~ParseFiscalYear(call.arg).ok) =>
          /\ call.ret.raised
          /\ call.ret.val # <<call.now[1], call.now[2]>>
    /\ (/\ call.op = "calculate_money_moved"
        /\ call.fiscal_year # <<>>
        /\ ~ParseFiscalYear(call.fiscal_year).ok) =>
          call.ret.raised

\* the labels FY{y}-{y+1} of the fiscal years of the model
ValidScopes == {Label4(y, y + 1) : y \in Years}

\* the total of the call's table: calculate_money_moved(df, None)
TotalMoneyMoved == calculate_money_moved(call.df, <<>>, call.now)

\* C12 as stated: for every payments table and every valid fiscal-year
\* scope fy, calculate_money_moved(df, fy) <= calculate_money_moved(df, None).
C12_ScopedAtMostTotal ==
    (/\ call.op = "calculate_money_moved"
     /\ call.df.cols = PaymentCols
     /\ call.fiscal_year \in ValidScopes) =>
        /\ ~call.ret.raised
        /\ ~TotalMoneyMoved.raised
        /\ NumLe(call.ret.val, TotalMoneyMoved.val)

\* no amount_usd of the call's table is negative (a missing one may be)
NoNegativeAmount ==
    \A i \in 1..Len(call.df.rows) :
        IsNaN(call.df.rows[i].amount_usd)
            \/ call.df.rows[i].amount_usd[1] >= 0

\* C12 amended: for every payments table without a negative amount_usd and
\* every valid fiscal-year scope fy,
\* calculate_money_moved(df, fy) <= calculate_money_moved(df, None).
C12_ScopedAtMostTotalNoRefund ==
    (/\ call.op = "calculate_money_moved"
     /\ call.df.cols = PaymentCols
     /\ call.fiscal_year \in ValidScopes
     /\ NoNegativeAmount) =>
        /\ ~call.ret.raised
        /\ ~TotalMoneyMoved.raised
        /\ NumLe(call.ret.val, TotalMoneyMoved.val)

\* of two donations of 100, one in the fiscal year and one after it, the
\* fiscal year moved 100 and the table 200
C12_Witness ==
    /\ call.op = "calculate_money_moved"
    /\ call.fiscal_year = FY2023
    /\ Len(call.df.rows) = 2
    /\ call.df.rows[1].date = Day(2023, 7, 1)
    /\ call.df.rows[2].date = Day(2024, 7, 1)
    /\ call.df.rows[1].amount_usd = Num(100)
    /\ call.df.rows[2].amount_usd = Num(100)
    /\ call.ret.val = Num(100)
    /\ TotalMoneyMoved.val = Num(200)

\* the money moved of the call's table in the call's scope
MoneyMovedInScope == calculate_money_moved(call.df, call.fiscal_year, call.now)

\* every counterfactuality of the call's table is at most 1 (or missing)
WeightsAtMostOne ==
    \A i \in 1..Len(call.df.rows) :
        IsNaN(call.df.rows[i].counterfactuality)
            \/ NumLe(call.df.rows[i].counterfactuality, Num(1))

\* C13 as stated: for every payments table in which every counterfactuality
\* is at most 1, and every scope (a fiscal year or none),
\* calculate_counterfactual_mm(df, scope) <= calculate_money_moved(df, scope).
C13_CounterfactualAtMostMoved ==
    (/\ call.op = "calculate_counterfactual_mm"
     /\ call.df.cols = PaymentCols
     /\ call.fiscal_year \in {<<>>} \cup ValidScopes
     /\ WeightsAtMostOne) =>
        /\ ~call.ret.raised
        /\ ~MoneyMovedInScope.raised
        /\ NumLe(call.ret.val, MoneyMovedInScope.val)

\* C13 amended: for every payments table in which every counterfactuality
\* is at most 1 and no amount_usd is negative, and every scope (a fiscal
\* year or none),
\* calculate_counterfactual_mm(df, scope) <= calculate_money_moved(df, scope).
C13_CounterfactualAtMostMovedNoRefund ==
    (/\ call.op = "calculate_counterfactual_mm"
     /\ call.df.cols = PaymentCols
     /\ call.fiscal_year \in {<<>>} \cup ValidScopes
     /\ WeightsAtMostOne
     /\ NoNegativeAmount) =>
        /\ ~call.ret.raised
        /\ ~MoneyMovedInScope.raised
        /\ NumLe(call.ret.val, MoneyMovedInScope.val)

\* two donations in the fiscal year, one of 100 weighted 1/2 and one of 40
\* weighted 1: 90 counterfactual of 140 moved
C13_Witness ==
    /\ call.op = "calculate_counterfactual_mm"
    /\ call.fiscal_year = FY2023
    /\ Len(call.df.rows) = 2
    /\ call.df.rows[1] =
          Payment(Day(2023, 7, 1), Num(100), GlobalHealth, <<1, 2>>)
    /\ call.df.rows[2] = Payment(Day(2023, 7, 1), Num(40), GlobalHealth, Num(1))
    /\ call.ret.val = Num(90)
    /\ MoneyMovedInScope.val = Num(140)

----------------------------------------------------------------------------
(* Claims about the currency normaliser *)

IsConversion == call.op \in {"convert_payments_to_usd", "convert_pledges_to_usd"}

\* the date and the amount of input row i of the conversion in call
InputDate(i) ==
    IF call.op = "convert_payments_to_usd" THEN call.df.rows[i].date
    ELSE call.df.rows[i].pledge_created_at

InputAmount(i) ==
    IF call.op = "convert_payments_to_usd" THEN call.df.rows[i].amount
    ELSE call.df.rows[i].contribution_amount

\* the rates the table of currency c holds on a date
RatesOn(c, date) ==
    {call.rates[c][j].rate : j \in {k \in 1..Len(call.rates[c]) :
        call.rates[c][k].date = date /\ ~IsNaN(call.rates[c][k].rate)}}

\* C1: both conversions set amount_usd, for every row whose currency's rate
\* table has a rate r on the row's date, to amount * r for GBP, AUD and EUR
\* and to amount / r for CAD, SGD and CHF; a USD row gets its amount,
\* whatever the tables hold.
C1_RateConvention ==
    IsConversion =>
        /\ ~call.ret.raised
        /\ Len(call.ret.val.rows) = Len(call.df.rows)
        /\ \A i \in 1..Len(call.df.rows) :
              LET c == call.df.rows[i].currency
                  usd == call.ret.val.rows[i].amount_usd
              IN  /\ c \in {"GBP", "AUD", "EUR"} =>
                        \A r \in RatesOn(c, InputDate(i)) :
                            NumEq(usd, <<InputAmount(i)[1] * r[1],
                                         InputAmount(i)[2] * r[2]>>)
                  /\ c \in {"CAD", "SGD", "CHF"} =>
                        \A r \in RatesOn(c, InputDate(i)) :
                            NumEq(usd, <<InputAmount(i)[1] * r[2],
                                         InputAmount(i)[2] * r[1]>>)
                  /\ c = "USD" => NumEq(usd, InputAmount(i))

\* 100 CAD at 1.35 CAD per USD became 100 / 1.35 USD, and 100 EUR at 1.08
\* USD per EUR became 108 USD
C1_Witness ==
    /\ call.op = "convert_payments_to_usd"
    /\ Len(call.df.rows) = 2
    /\ call.df.rows[1] = RawPayment(RateDay1, Num(100), "CAD")
    /\ call.df.rows[2] = RawPayment(RateDay1, Num(100), "EUR")
    /\ call.ret.val.rows[1].amount_usd = <<2000, 27>>
    /\ call.ret.val.rows[2].amount_usd = <<108, 1>>

\* C2: a payment in a currency without a rate table (not USD, GBP, CAD,
\* AUD, EUR, SGD, CHF) is left with a null amount_usd; amount_usd is never
\* set to the raw amount.
C2_UnknownCurrencyNull ==
    call.op = "convert_payments_to_usd" =>
        \A i \in 1..Len(call.ret.val.rows) :
            call.ret.val.rows[i].currency \notin Currencies \cup {"USD"} =>
                IsNaN(call.ret.val.rows[i].amount_usd)

\* C3: for a payment with a non-null amount in one of the six rate-table
\* currencies, amount_usd is null if and only if the currency's table has no
\* rate for the payment's exact date (no row, or a row with a missing rate);
\* the amount_usd of a row is what it is when the row is converted alone.
C3_NullIffNoRate ==
    call.op = "convert_payments_to_usd" =>
        /\ Len(call.ret.val.rows) = Len(call.df.rows)
        /\ \A i \in 1..Len(call.df.rows) :
              LET row == call.df.rows[i]
                  alone == convert_payments_to_usd(
                               DataFrame(call.df.cols, <<row>>),
                               call.rates["GBP"], call.rates["CAD"],
                               call.rates["AUD"], call.rates["EUR"],
                               call.rates["SGD"], call.rates["CHF"])
              IN  /\ (row.currency \in Currencies /\ ~IsNaN(row.amount)) =>
                        (IsNaN(call.ret.val.rows[i].amount_usd)
                            <=> RatesOn(row.currency, row.date) = {})
                  /\ call.ret.val.rows[i].amount_usd
                        = alone.val.rows[1].amount_usd

\* a GBP payment on the tail-gap day of the GBP table got a null amount_usd
\* while the CAD payment beside it was converted
C3_Witness ==
    /\ call.op = "convert_payments_to_usd"
    /\ Len(call.df.rows) = 2
    /\ call.df.rows[1] = RawPayment(RateDay2, Num(100), "GBP")
    /\ call.df.rows[2] = RawPayment(RateDay2, Num(100), "CAD")
    /\ call.rates["GBP"][2].rate = NaN
    /\ IsNaN(call.ret.val.rows[1].amount_usd)
    /\ ~IsNaN(call.ret.val.rows[2].amount_usd)

\* C20: normalize is idempotent: convert_payments_to_usd applied to its own
\* output with the same rate tables gives every row the same amount_usd as
\* the first application.
C20_NormalizeIdempotent ==
    (call.op = "convert_payments_to_usd" /\ "first" \in DOMAIN call) =>
        /\ ~call.ret.raised
        /\ Len(call.ret.val.rows) = Len(call.first.rows)
        /\ \A i \in 1..Len(call.first.rows) :
              NumEq(call.ret.val.rows[i].amount_usd,
                    call.first.rows[i].amount_usd)

\* 100 GBP and 100 CAD, 125 USD and 100 / 1.35 USD after the first
\* conversion, are the same after the second
C20_Witness ==
    /\ call.op = "convert_payments_to_usd"
    /\ "first" \in DOMAIN call
    /\ Len(call.df.rows) = 2
    /\ call.df.rows[1].currency = "GBP"
    /\ call.df.rows[2].currency = "CAD"
    /\ call.first.rows[1].amount_usd = Num(125)
    /\ call.first.rows[2].amount_usd = <<2000, 27>>
    /\ call.ret.val.rows[1].amount_usd = Num(125)
    /\ call.ret.val.rows[2].amount_usd = <<2000, 27>>

\* every rate table of the call has at most one row for a date
OneRowADate ==
    \A c \in Currencies :
        \A i, j \in 1..Len(call.rates[c]) :
            call.rates[c][i].date = call.rates[c][j].date => i = j

\* the table returned has exactly the rows of the input, in their order:
\* row i is input row i (date being the name of pledge_created_at in a
\* converted pledges table) with its amount_usd
OneRowPerInputRow ==
    /\ ~call.ret.raised
    /\ Len(call.ret.val.rows) = Len(call.df.rows)
    /\ \A i \in 1..Len(call.df.rows) :
           /\ call.ret.val.rows[i].date = InputDate(i)
           /\ call.ret.val.rows[i].currency = call.df.rows[i].currency
           /\ NumEq(InputAmount(i),
                    IF call.op = "convert_payments_to_usd"
                    THEN call.ret.val.rows[i].amount
                    ELSE call.ret.val.rows[i].contribution_amount)

\* C27 as stated: convert_payments_to_usd and convert_pledges_to_usd return
\* exactly one row per input row, none dropped and none duplicated, for
\* any rate tables passed to them.
C27_OneRowPerInputRow ==
    IsConversion => OneRowPerInputRow

\* C27, amended: convert_payments_to_usd and convert_pledges_to_usd return
\* exactly one row per input row, none dropped and none duplicated, for
\* rate tables that hold at most one row for a date.
C27_OneRowPerInputRowOfDailyRates ==
    (IsConversion /\ OneRowADate) => OneRowPerInputRow

\* C27 witness: two rows of different currencies were converted with daily
\* rate tables, one of them on a date of the tables and one at a time no
\* table has a row for
C27_Witness ==
    /\ IsConversion
    /\ OneRowADate
    /\ Len(call.df.rows) = 2
    /\ Len(call.ret.val.rows) = 2
    /\ call.df.rows[1].currency = "GBP"
    /\ InputDate(1) = RateDay1
    /\ call.df.rows[2].currency = "CAD"
    /\ InputDate(2) = RateDay1Noon

----------------------------------------------------------------------------
(* Claims about the annualized run rate *)

\* monthly 12, quarterly 4, annually 1, One-Time 1
AnnualizationFactor(frequency) ==
    CASE frequency = "monthly" -> 12
      [] frequency = "quarterly" -> 4
      [] frequency = "annually" -> 1
      [] frequency = "One-Time" -> 1

\* the Active ARR of fiscal year FY{y}-{y+1} over the loaded pledges: the
\* Active donor pledges starting in it, each amount_usd times the factor of
\* its frequency
ActiveARR(y) ==
    LET rows == df_pledges_converted.rows
    IN  SumOver({i \in 1..Len(rows) :
                    /\ rows[i].pledge_status = "Active donor"
                    /\ InFiscalYearDays(rows[i].pledge_starts_at, y)},
                [i \in 1..Len(rows) |->
                    Mul(rows[i].amount_usd,
                        Num(AnnualizationFactor(rows[i].frequency)))])

\* C10: calculate_arr_by_channel, update_active_arr and update_pledge_kpis
\* (every month selected) all return the Active ARR of the fiscal year: the
\* sum over its Active donor pledges of amount_usd times the annualization
\* factor of the frequency.
C10_ActiveARREverywhere ==
    pc = "loaded" =>
        \A y \in Years :
            call.op \in {"calculate_arr_by_channel", "update_active_arr",
                         "update_pledge_kpis"}
              /\ call.fiscal_year = Label4(y, y + 1) =>
                /\ call.op = "calculate_arr_by_channel" =>
                      NumEq(call.ret.val, ActiveARR(y))
                /\ call.op = "update_active_arr" =>
                      call.ret.val = FormatMoney(ActiveARR(y))
                /\ (call.op = "update_pledge_kpis"
                        /\ call.month_range = <<0, 11>>) =>
                      call.ret.val[5] = FormatMoney(ActiveARR(y))

\* the sum of the annual values of the chapter groups returned to call
ChapterArrTotal ==
    SumSkipNa([j \in 1..Len(call.ret.val.rows) |->
                  call.ret.val.rows[j].annual_value])

\* calculate_arr_by_channel of the table and the scope of call
ArrByChannelOfCall ==
    calculate_arr_by_channel(call.df, call.fiscal_year, call.now)

\* C28: for any pledges table and any scope, the annual values returned by
\* calculate_chapter_arr sum to the total calculate_arr_by_channel returns
\* for the same table and scope.
C28_ChapterArrSumsToArr ==
    (call.op = "calculate_chapter_arr" /\ ~call.ret.raised)
        => /\ ~ArrByChannelOfCall.raised
           /\ NumEq(ChapterArrTotal, ArrByChannelOfCall.val)

----------------------------------------------------------------------------
(* Claims about the pledge metrics *)

\* the indices of the rows of the call's table whose status is in the set
RowsWithStatus(statuses) ==
    {i \in 1..Len(call.df.rows) : call.df.rows[i].pledge_status \in statuses}

\* C11: calculate_pledge_attrition_rate returns 100 * (pledges whose status
\* is 'Payment failure' or 'Churned donor') / (all pledges of the table,
\* whatever their status), and 0 when the table has no pledges; ten pledges
\* with 2 'Churned donor' and 1 'Payment failure' give 30.
C11_AttritionRate ==
    (call.op = "calculate_pledge_attrition_rate"
        /\ call.df.cols = PledgeCols) =>
        LET cancelled ==
                Cardinality(RowsWithStatus({"Payment failure", "Churned donor"}))
            total == Len(call.df.rows)
        IN  /\ ~call.ret.raised
            /\ total = 0 => call.ret.val = Zero
            /\ total > 0 => NumEq(call.ret.val, <<100 * cancelled, total>>)
            /\ (/\ total = 10
                /\ Cardinality(RowsWithStatus({"Churned donor"})) = 2
                /\ Cardinality(RowsWithStatus({"Payment failure"})) = 1) =>
                  call.ret.val = Num(30)

\* the attrition rate of ten pledges, seven of them pledged for the future,
\* two churned and one with a failed payment, was 30
C11_Witness ==
    /\ call.op = "calculate_pledge_attrition_rate"
    /\ Len(call.df.rows) = 10
    /\ Cardinality(RowsWithStatus({"Pledged donor"})) = 7
    /\ Cardinality(RowsWithStatus({"Churned donor"})) = 2
    /\ Cardinality(RowsWithStatus({"Payment failure"})) = 1
    /\ call.ret.val = Num(30)

\* the Active donor pledges of the call's table in the call's scope
ActiveInScope ==
    {i \in 1..Len(call.df.rows) :
        /\ call.df.rows[i].pledge_status = "Active donor"
        /\ InScope(call.df.rows[i].pledge_starts_at, call.fiscal_year)}

\* C17: calculate_chapter_arr returns one entry for each chapter_type that
\* has at least one 'Active donor' pledge in scope, whose value is the sum of
\* the annualized values of those pledges (amount_usd times the
\* annualization factor of the frequency), with the entries in alphabetical
\* order of chapter_type.
C17_ChapterArr ==
    (/\ call.op = "calculate_chapter_arr"
     /\ call.df.cols = PledgeCols
     /\ call.fiscal_year \in {<<>>} \cup ValidScopes) =>
        LET rows == call.df.rows
            chapters == {rows[i].chapter_type : i \in ActiveInScope}
                            \ {NoChapter}
            annualized == [i \in 1..Len(rows) |->
                              Mul(rows[i].amount_usd,
                                  Num(AnnualizationFactor(rows[i].frequency)))]
            entries == call.ret.val.rows
        IN  /\ ~call.ret.raised
            /\ Len(entries) = Cardinality(chapters)
            /\ \A j \in 1..Len(entries) :
                  /\ entries[j].chapter_type \in chapters
                  /\ NumEq(entries[j].annual_value,
                           SumOver({i \in ActiveInScope :
                                       rows[i].chapter_type
                                           = entries[j].chapter_type},
                                   annualized))
            /\ \A j \in 1..(Len(entries) - 1) :
                  TextLt(entries[j].chapter_type, entries[j + 1].chapter_type)

\* the donors of the call's table: the donor_id values that are not missing
DonorsOfTable ==
    {call.df.rows[i].donor_id : i \in 1..Len(call.df.rows)} \ {NoId}

\* the donor has a pledge whose status is 'Active donor' or 'One-Time'
IsActiveDonor(d) ==
    \E i \in 1..Len(call.df.rows) :
        /\ call.df.rows[i].donor_id = d
        /\ call.df.rows[i].pledge_status \in {"Active donor", "One-Time"}

\* C18: count_active_donors returns the number of distinct donor_id values
\* among the pledges whose status is 'Active donor' or 'One-Time'; a donor
\* with several such pledges is counted once and a donor with only other
\* statuses is not counted.
C18_ActiveDonors ==
    (call.op = "count_active_donors" /\ call.df.cols = PledgeCols) =>
        /\ ~call.ret.raised
        /\ call.ret.val = Cardinality({d \in DonorsOfTable : IsActiveDonor(d)})
        /\ (\A d \in DonorsOfTable : ~IsActiveDonor(d)) => call.ret.val = 0
        /\ (Cardinality(DonorsOfTable) = 1
               /\ \E d \in DonorsOfTable : IsActiveDonor(d)) =>
              call.ret.val = 1

\* a donor with an 'Active donor' pledge and a 'One-Time' pledge was counted
\* once
C18_Witness ==
    /\ call.op = "count_active_donors"
    /\ Len(call.df.rows) = 2
    /\ call.df.rows[1].donor_id = "d1"
    /\ call.df.rows[2].donor_id = "d1"
    /\ call.df.rows[1].pledge_status = "Active donor"
    /\ call.df.rows[2].pledge_status = "One-Time"
    /\ call.ret.val = 1

----------------------------------------------------------------------------
(* Claims about the whole metrics engine *)

PaymentOps == {"calculate_money_moved", "calculate_counterfactual_mm"}
ScopedPledgeOps == {"calculate_arr_by_channel", "calculate_chapter_arr"}
UnscopedOps ==
    {"calculate_pledge_attrition_rate", "count_active_donors",
     "count_active_pledges"}

\* no row of the call's table is in the call's scope: the table has no
\* rows, or the call names a fiscal year and no row is dated in it
NoRowInScope ==
    \/ Len(call.df.rows) = 0
    \/ /\ call.op \in PaymentOps
       /\ call.fiscal_year \in ValidScopes
       /\ \A i \in 1..Len(call.df.rows) :
             ~InScope(call.df.rows[i].date, call.fiscal_year)
    \/ /\ call.op \in ScopedPledgeOps
       /\ call.fiscal_year \in ValidScopes
       /\ \A i \in 1..Len(call.df.rows) :
             ~InScope(call.df.rows[i].pledge_starts_at, call.fiscal_year)

\* C14: each of the seven engine operations, called on a table in which no
\* row matches the scope, a table with no rows at all included, returns 0
\* (a scalar metric) or an empty grouping (calculate_chapter_arr) and never
\* raises.
C14_EmptyScopeResult ==
    (call.op \in PaymentOps \cup ScopedPledgeOps \cup UnscopedOps
        /\ NoRowInScope) =>
        /\ ~call.ret.raised
        /\ call.op \in PaymentOps \cup {"calculate_arr_by_channel",
                                         "calculate_pledge_attrition_rate"} =>
              call.ret.val = Zero
        /\ call.op \in {"count_active_donors", "count_active_pledges"} =>
              call.ret.val = 0
        /\ call.op = "calculate_chapter_arr" =>
              /\ call.ret.val.cols = {"chapter_type", "annual_value"}
              /\ call.ret.val.rows = <<>>

----------------------------------------------------------------------------
(* Claims about the rate tables *)

\* the days of the windows of the model
WindowDays == {DayNo(n) : n \in 1..MaxDays}

\* the days from the call's start_date to its end_date
CallDays == {d \in WindowDays : TsLe(call.start_date, d) /\ TsLe(d, call.end_date)}

\* FRED has a rate of currency c on day d, and that rate
HasSourceRate(c, d) ==
    \E k \in 1..Len(call.source[c].df) :
        call.source[c].df[k].date = d /\ ~IsNaN(call.source[c].df[k].rate)

SourceRateOn(c, d) ==
    call.source[c].df[CHOOSE k \in 1..Len(call.source[c].df) :
                          call.source[c].df[k].date = d].rate

\* the days after d, within the call's window, on which FRED has a rate
LaterRateDays(c, d) ==
    {e \in CallDays : e # d /\ TsLe(d, e) /\ HasSourceRate(c, e)}

\* the rate the table written for currency c holds on day d
WrittenRate(c, d) ==
    call.ret[c].rows[CHOOSE i \in 1..Len(call.ret[c].rows) :
                         call.ret[c].rows[i].date = d].rate

\* C15: get_historical_exchange_rates fills every date of
\* [start_date, end_date] that has no source rate with the rate of the
\* nearest later date that has one (backward fill); it never uses an
\* earlier date's rate and never changes a date that has a source rate.
C15_BackwardFill ==
    call.op = "get_historical_exchange_rates" =>
        \A c \in Currencies :
            call.ret[c].written =>
                \A d \in CallDays :
                    /\ \E i \in 1..Len(call.ret[c].rows) :
                          call.ret[c].rows[i].date = d
                    /\ HasSourceRate(c, d) =>
                          WrittenRate(c, d) = SourceRateOn(c, d)
                    /\ (~HasSourceRate(c, d) /\ LaterRateDays(c, d) # {}) =>
                          LET nearest ==
                                  CHOOSE e \in LaterRateDays(c, d) :
                                      \A f \in LaterRateDays(c, d) : TsLe(e, f)
                          IN  WrittenRate(c, d) = SourceRateOn(c, nearest)
                    /\ (~HasSourceRate(c, d) /\ LaterRateDays(c, d) = {}) =>
                          IsNaN(WrittenRate(c, d))

\* FRED had GBP rates on February 27 and on March 1 only, and the table
\* holds the rate of March 1 on February 28 and 29
C15_Witness ==
    /\ call.op = "get_historical_exchange_rates"
    /\ call.start_date = Day(2024, 2, 27)
    /\ call.end_date = Day(2024, 3, 1)
    /\ call.ret["GBP"].written
    /\ HasSourceRate("GBP", Day(2024, 2, 27))
    /\ ~HasSourceRate("GBP", Day(2024, 2, 28))
    /\ ~HasSourceRate("GBP", Day(2024, 2, 29))
    /\ HasSourceRate("GBP", Day(2024, 3, 1))
    /\ WrittenRate("GBP", Day(2024, 2, 28)) = SourceRate("GBP", 4)
    /\ WrittenRate("GBP", Day(2024, 2, 29)) = SourceRate("GBP", 4)
    /\ WrittenRate("GBP", Day(2024, 2, 27)) = SourceRate("GBP", 1)

\* the number of the day in its year
RECURSIVE DaysBeforeMonth(_, _)
DaysBeforeMonth(y, m) ==
    IF m = 1 THEN 0 ELSE DaysBeforeMonth(y, m - 1) + DaysInMonth(y, m - 1)

DayOfYear(d) == DaysBeforeMonth(d.year, d.month) + d.day

\* C16: each rate table written holds exactly one row for every calendar
\* day from start_date to end_date inclusive, in contiguous daily order, and
\* its rate is defined on every day up to the last source observation; only
\* the days after the last source observation (the tail gap) keep a missing
\* rate.
C16_OneRowADay ==
    call.op = "get_historical_exchange_rates" =>
        \A c \in Currencies :
            call.ret[c].written =>
                LET rows == call.ret[c].rows
                IN  /\ Len(rows) = Cardinality(CallDays)
                    /\ \A d \in CallDays :
                          Cardinality({i \in 1..Len(rows) : rows[i].date = d})
                              = 1
                    /\ Len(rows) > 0 =>
                          /\ rows[1].date = call.start_date
                          /\ rows[Len(rows)].date = call.end_date
                    /\ \A i \in 1..(Len(rows) - 1) :
                          /\ rows[i + 1].date.year = rows[i].date.year
                          /\ DayOfYear(rows[i + 1].date)
                                = DayOfYear(rows[i].date) + 1
                    /\ \A i \in 1..Len(rows) :
                          IsNaN(rows[i].rate) <=>
                              \A j \in i..Len(rows) :
                                  ~HasSourceRate(c, rows[j].date)

\* a five-day table over the leap day: the last FRED rate is of February
\* 29, and March 1 and 2 keep a missing rate
C16_Witness ==
    /\ call.op = "get_historical_exchange_rates"
    /\ call.start_date = Day(2024, 2, 27)
    /\ call.end_date = Day(2024, 3, 2)
    /\ call.ret["CAD"].written
    /\ Len(call.ret["CAD"].rows) = 5
    /\ call.ret["CAD"].rows[3].date = Day(2024, 2, 29)
    /\ HasSourceRate("CAD", Day(2024, 2, 29))
    /\ ~IsNaN(call.ret["CAD"].rows[1].rate)
    /\ ~IsNaN(call.ret["CAD"].rows[3].rate)
    /\ IsNaN(call.ret["CAD"].rows[4].rate)
    /\ IsNaN(call.ret["CAD"].rows[5].rate)

----------------------------------------------------------------------------
(* Claims about the shared tables *)

SharedTables ==
    <<df_payments_converted, df_pledges_converted, counterfactual_df>>

\* what the callback of a finished request returns when it runs alone on
\* the tables of the module, for a reading of the clock
ResultAlone(req, now) ==
    IF req.op = "update_counterfactual_mm"
    THEN update_counterfactual_mm(counterfactual_df, req.fiscal_year, now)
    ELSE update_pledge_kpis(df_pledges_converted, req.fiscal_year,
                            req.month_range, now)

\* every finished request holds the result of its callback run alone
EachResultAsAlone ==
    \A r \in Requests :
        requests[r].pos = "done" =>
            \A now \in (IF "now" \in DOMAIN requests[r]
                         THEN {requests[r].now} ELSE NowPairs) :
                requests[r].ret = ResultAlone(requests[r], now)

\* C19: after startup no engine operation and no callback modifies the
\* shared tables df_payments_converted, df_pledges_converted and
\* counterfactual_df (rows, columns and values stay as loaded); hence under
\* any interleaving of callback invocations each invocation returns the
\* value it returns when run alone.
C19_SharedTablesReadOnly ==
    /\ [][pc # "start" => SharedTables' = SharedTables]_vars
    /\ []EachResultAsAlone

\* update_counterfactual_mm has finished with $50.00 in one thread while
\* update_pledge_kpis, in another, has assigned the fiscal months of its
\* copy and not yet returned
C19_Witness ==
    /\ pc = "loaded"
    /\ requests["r1"].pos = "done"
    /\ requests["r1"].op = "update_counterfactual_mm"
    /\ requests["r1"].fiscal_year = FY2023
    /\ requests["r1"].ret = Ok(<<"$", "5", "0", ".", "0", "0">>)
    /\ requests["r2"].pos = "with_months"
    /\ Len(requests["r2"].pledges.rows) = 2
    /\ "fiscal_month" \notin df_pledges_converted.cols
    /\ "counterfactual_amount" \notin counterfactual_df.cols


----------------------------------------------------------------------------
(* Claims about the context of the AI insights *)

\* the context get_ai_insights prepared holds values, for a fiscal year
ContextWritten ==
    /\ call.op = "get_ai_insights"
    /\ call.asked
    /\ ~call.dashboard_context.error
    /\ Len(call.fiscal_year) > 0

\* what a KPI callback returns is a value: it did not raise
IsValue(ret) == ~ret.raised

\* counterfactual_df is the table lines 331-339 make of the payments table
CounterfactualOfPayments ==
    /\ {"portfolio", "amount_usd", "counterfactuality"}
           \subseteq df_payments_converted.cols
    /\ counterfactual_df.cols
           = df_payments_converted.cols \cup {"counterfactual_moved"}
    /\ LET kept == SelectSeq(df_payments_converted.rows, NotInternalFund)
       IN  counterfactual_df.rows =
               [i \in 1..Len(kept) |->
                   SetColumn(kept[i], "counterfactual_moved",
                       Mul(kept[i].amount_usd, kept[i].counterfactuality))]

\* C21: the Total Money Moved, Counterfactual Money Moved, Active ARR,
\* Attrition Rate, Active Donors and Active Pledges that
\* prepare_dashboard_context writes for a fiscal year are the values the
\* six Objective-page KPI callbacks return for that fiscal year on the
\* same tables: update_counterfactual_mm reads counterfactual_df, the
\* payments outside the internal funds, and the other five the tables the
\* context was prepared from.  The two counts are compared as numbers, the
\* callbacks writing them with thousands separators.
C21_ContextEqualsKpis ==
    ContextWritten =>
        LET context == call.dashboard_context
            fy == call.fiscal_year
            now == call.now
            money_moved == update_money_moved(df_payments_converted, fy, now)
            counterfactual ==
                update_counterfactual_mm(counterfactual_df, fy, now)
            active_arr == update_active_arr(df_pledges_converted, fy, now)
            attrition == update_attrition_rate(df_pledges_converted, fy, now)
            donors == update_active_donors(df_pledges_converted, fy, now)
            pledges == update_active_pledges(df_pledges_converted, fy, now)
        IN  /\ IsValue(money_moved)
            /\ context.total_money_moved = money_moved.val
            /\ CounterfactualOfPayments
                => /\ IsValue(counterfactual)
                   /\ context.counterfactual_mm = counterfactual.val
            /\ IsValue(active_arr)
            /\ context.active_arr = active_arr.val
            /\ IsValue(attrition)
            /\ context.attrition_rate = attrition.val
            /\ IsValue(donors)
            /\ CountOf(context.active_donors) = CountOf(donors.val)
            /\ IsValue(pledges)
            /\ CountOf(context.active_pledges) = CountOf(pledges.val)

\* C21 witness: after a completed start-up a context is written for fiscal
\* year 2023-2024 whose six values are not those of an empty table
C21_Witness ==
    /\ ContextWritten
    /\ pc = "loaded"
    /\ call.fiscal_year = FY2023
    /\ call.dashboard_context.total_money_moved
           = <<"$", "1", "6", "0", ".", "0", "0">>
    /\ call.dashboard_context.counterfactual_mm
           = <<"$", "5", "0", ".", "0", "0">>
    /\ call.dashboard_context.active_arr
           = <<"$", "1", ",", "2", "0", "0", ".", "0", "0">>
    /\ call.dashboard_context.attrition_rate = <<"5", "0", ".", "0", "%">>
    /\ call.dashboard_context.active_donors = <<"1">>
    /\ call.dashboard_context.active_pledges = <<"1">>
    /\ CounterfactualOfPayments


\* the table calculate_chapter_arr returns, as the entries of a dict
ChapterArrEntries(chapter_arr) ==
    {[key |-> chapter_arr.rows[i].chapter_type,
      value |-> chapter_arr.rows[i].annual_value] :
        i \in 1..Len(chapter_arr.rows)}

\* C22: the Chapter Performance figures of the text prepare_dashboard_context
\* writes are, for every chapter_type, the annual value calculate_chapter_arr
\* returns for the same pledges and fiscal year.
C22_ChapterPerformanceIsChapterArr ==
    (call.op = "get_ai_insights" /\ call.asked
        /\ ~call.dashboard_context.error) =>
        LET chapter_arr == calculate_chapter_arr(df_pledges_converted,
                               call.fiscal_year, call.now)
        IN  /\ ~chapter_arr.raised
            /\ call.dashboard_context.chapter_performance
                   = ChapterArrEntries(chapter_arr.val)


----------------------------------------------------------------------------
(* Claims about the start-up block and the state it leaves *)

\* the KPI callbacks of one output, and those of several
SingleKpis ==
    {"update_money_moved", "update_counterfactual_mm", "update_active_arr",
     "update_attrition_rate", "update_active_donors", "update_active_pledges"}
SeveralKpis == {"update_mm_kpis", "update_pledge_kpis"}

\* the load failed and left the defaults of lines 200-204
LoadFailedWithDefaults ==
    /\ pc = "failed"
    /\ df_payments_converted = EmptyDataFrame
    /\ df_pledges_converted = EmptyDataFrame
    /\ counterfactual_df = EmptyDataFrame
    /\ available_fiscal_years = <<>>
    /\ current_fiscal_year = NoData

\* C23: after a failed load that left the tables empty and 'No Data' in the
\* dropdowns, every KPI callback invoked with 'No Data' returns the text
\* "No data" or "Error" in each of its outputs; none raises, none returns a
\* number.
C23_FailedLoadGivesLabels ==
    (LoadFailedWithDefaults /\ call.op \in SingleKpis \cup SeveralKpis
        /\ call.fiscal_year = NoData) =>
        /\ ~call.ret.raised
        /\ call.op \in SingleKpis
            => call.ret.val \in {NoDataText, ErrorText}
        /\ call.op \in SeveralKpis
            => \A k \in DOMAIN call.ret.val :
                   call.ret.val[k] \in {NoDataText, ErrorText}


\* C25: if a step of the start-up block raises, all five globals hold their
\* defaults afterwards, whichever step it was: the three tables are empty,
\* available_fiscal_years is empty and current_fiscal_year is 'No Data'.
C25_FailedLoadKeepsDefaults ==
    pc = "failed" =>
        /\ df_payments_converted = EmptyDataFrame
        /\ df_pledges_converted = EmptyDataFrame
        /\ counterfactual_df = EmptyDataFrame
        /\ available_fiscal_years = <<>>
        /\ current_fiscal_year = NoData

----------------------------------------------------------------------------
(* Claims about the Money Moved KPIs *)

\* the sum of amount_usd over the payments of the module's table that the
\* fiscal-year range of the call holds and that are not of an internal fund
MoneyMovedOutsideInternalFunds ==
    LET range == get_fiscal_year_range(call.fiscal_year, call.now)
        counted == SelectSeq(df_payments_converted.rows, LAMBDA r :
                       InRange(r.date, range) /\ NotInternalFund(r))
    IN  SumSkipNa(Column(counted, "amount_usd"))

\* C24: a payment whose portfolio is 'One for the World Discretionary Fund'
\* or 'One for the World Operating Costs' does not contribute to Money
\* Moved: update_money_moved and the first output of update_mm_kpis, which
\* show calculate_money_moved of the payments table, are the sum over the
\* other payments of the fiscal year.
C24_MoneyMovedExcludesInternalFunds ==
    (/\ call.op \in {"update_money_moved", "update_mm_kpis"}
     /\ Len(call.fiscal_year) > 0
     /\ ~call.ret.raised) =>
        (IF call.op = "update_money_moved" THEN call.ret.val
         ELSE call.ret.val[1]) = FormatMoney(MoneyMovedOutsideInternalFunds)

\* calculate_money_moved of the module's payments table for a scope
MoneyMovedOfModule(fiscal_year) ==
    calculate_money_moved(df_payments_converted, fiscal_year, call.now)

\* the sum of the values of a sequence of results
RECURSIVE SumResults(_)
SumResults(results) ==
    IF Len(results) = 0 THEN Zero
    ELSE Add(Head(results).val, SumResults(Tail(results)))

\* C26: the fiscal-year scopes partition the payments: calculate_money_moved
\* counts each payment for exactly one label of available_fiscal_years, the
\* label get_fiscal_year gives its date, so the sum of
\* calculate_money_moved(df, fy) over the labels of available_fiscal_years
\* is calculate_money_moved(df, None).
C26_FiscalYearsPartitionPayments ==
    (pc = "loaded" /\ call.op = "update_money_moved") =>
        LET rows == df_payments_converted.rows
            by_year == [k \in 1..Len(available_fiscal_years) |->
                           MoneyMovedOfModule(available_fiscal_years[k])]
        IN  /\ \A i \in 1..Len(rows), k \in 1..Len(available_fiscal_years) :
                   InRange(rows[i].date,
                           get_fiscal_year_range(available_fiscal_years[k],
                                                 call.now))
                       <=> available_fiscal_years[k]
                               = get_fiscal_year(rows[i].date)
            /\ \A k \in 1..Len(by_year) : ~by_year[k].raised
            /\ ~MoneyMovedOfModule(<<>>).raised
            /\ NumEq(SumResults(by_year), MoneyMovedOfModule(<<>>).val)


----------------------------------------------------------------------------
(* Claims about the join of the pledges with their payments *)

\* the rows of a sequence that carry payment_id id
RowsOfPayment(rows, id) ==
    {i \in 1..Len(rows) : rows[i].payment_id = id}

\* C29: Merged_INNER holds at most one row per payment, and a row only for
\* a payment whose pledge_id is the id of a pledge: a payment without a
\* pledge_id has no row in it.
C29_MergedInnerOfPledgedPayments ==
    Merged_INNER.defined =>
        /\ \A i \in 1..Len(Merged_INNER.rows) :
              Cardinality(RowsOfPayment(Merged_INNER.rows,
                                        Merged_INNER.rows[i].payment_id))
                  <= Cardinality(RowsOfPayment(df_payments_converted.rows,
                                        Merged_INNER.rows[i].payment_id))
        /\ \A i \in 1..Len(Merged_INNER.rows) :
              Merged_INNER.rows[i].pledge_id # NoId


----------------------------------------------------------------------------
(* Claims about the navigation *)

\* the page the browser shows: the only one displayed, the other five
\* hidden, and its link the only active one
Shows(p) ==
    \A q \in Pages :
        /\ layout.style[q] = IF q = p THEN "block" ELSE "none"
        /\ layout.active[q] = (q = p)

\* C30: once switch_page has answered the last request, exactly one of the
\* six pages is displayed and exactly its link is active; it is the page of
\* the link clicked last, and the Objective and Key Results page before any
\* click.
C30_OnePageOfLastClick ==
    ~layout.pending.sent
        => /\ Cardinality({p \in Pages : layout.style[p] = "block"}) = 1
           /\ Shows(IF layout.last = "none" THEN "objective" ELSE layout.last)

\* C30 witness: after clicks on three links, the last of them on the
\* Insights link, switch_page has answered and the Insights page is shown
C30_Witness ==
    /\ ~layout.pending.sent
    /\ layout.n_clicks["money"] = 1
    /\ layout.n_clicks["objective"] = 1
    /\ layout.n_clicks["insights"] = 2
    /\ layout.last = "insights"
    /\ layout.style["insights"] = "block"
    /\ call.op = "switch_page"

====
